---- MODULE Spec2Model ----
(***************************************************************************)
(* Model of the Fluid bridge engine of glimpse-speech                      *)
(* (src/src/engines/fluid.rs): the engine facade, the bridge session that  *)
(* owns one foreign handle, the loader of the bridge dylib, the response   *)
(* envelope codec and the temporary WAV file used by transcribe_samples.   *)
(*                                                                         *)
(* The foreign library, the file system and the clock are the environment: *)
(* every value they return is an input chosen by the actions.  Every call  *)
(* that crosses the boundary (or touches a temporary file) is appended to  *)
(* the event list of the running call, so that the order and the number of *)
(* foreign calls can be stated about the state the call leaves behind.     *)
(***************************************************************************)
EXTENDS Integers, Sequences, FiniteSets, TLC

\* ------------------------------------------------------------------ bounds
\* Library::new may succeed at most MaxLoads times in one behaviour.
MaxLoads == 2
\* unique_temp_wav_name may be called at most MaxTemp times in one behaviour.
MaxTemp == 1
\* Concurrent callers invoke unique_temp_wav_name at most MaxNames times.
MaxNames == 3
\* A transcript payload holds at most MaxSegments segments.
MaxSegments == 2
\* A WAV file holds at most MaxFrames frames.
MaxFrames == 2
\* A vocabulary holds at most MaxVocabulary entries.
MaxVocabulary == 4
\* A language hint built of single characters has at most MaxHint of them.
MaxHint == 3

\* --------------------------------------------------------------- constants
BRIDGE_SCHEMA_VERSION == 1
MIN_MACOS_MAJOR == 14

\* The engines (FluidEngine values) of the process, the model directories a
\* caller may name, and the macOS versions the caller or sw_vers may report.
\* Engines share nothing but the process-wide counter, so one is followed.
Engines == {"e1"}
ModelPaths == {"models/a", "models/b"}
MacosMajors == {13, 14}

\* Option<T>: None, or Some(v).
NoneInt == [some |-> FALSE, v |-> 0]
NoneStr == [some |-> FALSE, v |-> ""]
Some(x) == [some |-> TRUE, v |-> x]

\* The four symbols of the foreign-function table, in the order load binds them.
SymbolOrder ==
    << "glimpse_fluid_create", "glimpse_fluid_destroy",
       "glimpse_fluid_transcribe_wav", "glimpse_fluid_free_buffer" >>
Symbols == { SymbolOrder[i] : i \in 1..Len(SymbolOrder) }

\* Candidate dylib locations relative to the running executable, and the
\* development fallbacks a debug build appends to them.
ExeCandidates == << "exe/same_dir", "exe/../Frameworks", "exe/../Resources" >>
DevCandidates ==
    << "swift-bridge/.build/debug", "swift-bridge/.build/release",
       "swift-bridge/.build/arm64/debug", "swift-bridge/.build/arm64/release",
       "swift-bridge/.build/x86_64/debug", "swift-bridge/.build/x86_64/release" >>

NoFile == << >>

\* ------------------------------------------------------------------ state
VARIABLES
    build,             \* cfg of the build: target_os, debug_assertions
    engines,           \* each FluidEngine: alive, loaded_model_path, bridge
    libs,              \* every Library ever loaded: its path, and whether still open
    created,           \* number of handles foreign create has returned non-null
    destroyCalls,      \* per handle value: number of foreign destroy calls
    files,             \* temporary WAV files on disk
    TEMP_WAV_COUNTER,  \* the process-wide AtomicU64
    last,              \* the call that completed last: inputs, result, events
    \* -- concurrent callers of one FluidBridge (specification SpecBridge)
    handle,            \* the Mutex<usize> of the shared bridge
    lockHolder,        \* who holds the mutex guard
    pc,                \* each caller's position in FluidBridge::transcribe
    local,             \* each caller's copy of the handle (active_handle's result)
    inflight,          \* foreign calls entered and not yet returned
    dropPc,            \* position of the bridge's Drop
    \* -- parse_bridge_payload as a function (specification SpecParse)
    envelope,          \* response bytes, as the envelope they decode to
    parsed,            \* the result of parse_bridge_payload on them
    \* -- resolve_bridge_dylib_path as a function (specification SpecResolve)
    resolveArgs,       \* explicit_path, the file system, the build
    resolved,          \* the result of resolve_bridge_dylib_path on them
    \* -- into_transcription_result as a function (specification SpecAssemble)
    payload,           \* a BridgeTranscriptPayload
    assembled,         \* the TranscriptionResult made of it
    \* -- read_wav_samples as a function (specification SpecAudio)
    wav,               \* the file at wav_path
    decoded,           \* the result of read_wav_samples on it
    \* -- normalize_vocabulary as a function (specification SpecVocabulary)
    vocabulary,        \* FluidInferenceParams::vocabulary
    normalized,        \* the result of normalize_vocabulary on it
    \* -- one call of a function or method, followed from its arguments to its
    \*    result (the specifications named after the function)
    invocation,        \* the function and its arguments
    returned,          \* its result, and the foreign calls it made
    \* -- concurrent callers of unique_temp_wav_name (specification SpecNames)
    namePc,            \* each caller's position in unique_temp_wav_name
    nameLocal,         \* each caller's counter and nanos
    names              \* the names returned so far, in the order of return

engineVars == << build, engines, libs, created, destroyCalls, files,
                 TEMP_WAV_COUNTER, last >>
bridgeVars == << handle, lockHolder, pc, local, inflight, dropPc >>
parseVars == << envelope, parsed >>
callVars == << invocation, returned >>
nameVars == << namePc, nameLocal, names >>
pureVars == << resolveArgs, resolved, payload, assembled, wav, decoded,
              vocabulary, normalized, callVars, nameVars >>
vars == << build, engines, libs, created, destroyCalls, files,
           TEMP_WAV_COUNTER, last, handle, lockHolder, pc, local, inflight,
           dropPc, envelope, parsed, resolveArgs, resolved, payload, assembled,
           wav, decoded, vocabulary, normalized, invocation, returned, namePc,
           nameLocal, names >>

\* ----------------------------------------------------------------- events
\* again: for Library::new, whether a library loaded from the same path was
\* still open when this one was loaded.
\* payload: the request bytes passed to foreign create or transcribe_wav, as
\* the value they serialize.
NoRequest == [schema_version |-> 0]
Ev(call, lib, h, ptr, len, file) ==
    [call |-> call, lib |-> lib, handle |-> h, ptr |-> ptr, len |-> len,
     file |-> file, again |-> FALSE, payload |-> NoRequest]

\* The request of foreign create.
BridgeConfigPayload(asr_model_dir, diarization_model_dir, major) ==
    [schema_version |-> BRIDGE_SCHEMA_VERSION, asr_model_dir |-> asr_model_dir,
     diarization_model_dir |-> diarization_model_dir, runtime_macos_major |-> major]

\* The part of the state a call reads and writes, threaded through the
\* operators below, with the events of the call so far.
World ==
    [libs |-> libs, created |-> created, destroyCalls |-> destroyCalls,
     files |-> files, counter |-> TEMP_WAV_COUNTER, events |-> << >>]

Emit(w, ev) == [w EXCEPT !.events = Append(@, ev)]

\* Option<FluidBridge>: None, or a bridge holding its own Arc of a library
\* and the handle inside its mutex.
NoBridge == [present |-> FALSE, library |-> 0, handle |-> 0]
Bridge(lib, h) == [present |-> TRUE, library |-> lib, handle |-> h]

\* ------------------------------------------------------- library resolver
FirstExisting(candidates, exists) ==
    LET found == { i \in 1..Len(candidates) : candidates[i] \in exists }
    IN IF found = {} THEN NoneStr
       ELSE Some(candidates[CHOOSE i \in found : \A j \in found : i <= j])

\* Faulty variant: an explicit path that does not exist falls through to the
\* override variable and the candidates.
resolve_bridge_dylib_path_falls_through(explicit_path, fs, debug_assertions) ==
    IF explicit_path.some /\ explicit_path.v \in fs.exists
    THEN [ok |-> TRUE, path |-> explicit_path.v, err |-> ""]
    ELSE IF fs.env_var.some /\ fs.env_var.v \in fs.exists
    THEN [ok |-> TRUE, path |-> fs.env_var.v, err |-> ""]
    ELSE LET candidates ==
                 (IF fs.current_exe THEN ExeCandidates ELSE << >>)
                 \o (IF debug_assertions THEN DevCandidates ELSE << >>)
             found == FirstExisting(candidates, fs.exists)
         IN IF found.some
            THEN [ok |-> TRUE, path |-> found.v, err |-> ""]
            ELSE [ok |-> FALSE, path |-> "", err |-> "dylib not found"]

\* fs: exists (the paths that exist), env_var (GLIMPSE_FLUID_BRIDGE_DYLIB, None
\* when unset or not Unicode), current_exe (whether current_exe() and its
\* parent are known).
resolve_bridge_dylib_path(explicit_path, fs, debug_assertions) ==
    IF explicit_path.some
    THEN IF explicit_path.v \in fs.exists
         THEN [ok |-> TRUE, path |-> explicit_path.v, err |-> ""]
         ELSE [ok |-> FALSE, path |-> "", err |-> "dylib path does not exist"]
    ELSE IF fs.env_var.some /\ fs.env_var.v \in fs.exists
    THEN [ok |-> TRUE, path |-> fs.env_var.v, err |-> ""]
    ELSE LET candidates ==
                 (IF fs.current_exe THEN ExeCandidates ELSE << >>)
                 \o (IF debug_assertions THEN DevCandidates ELSE << >>)
             found == FirstExisting(candidates, fs.exists)
         IN IF found.some
            THEN [ok |-> TRUE, path |-> found.v, err |-> ""]
            ELSE [ok |-> FALSE, path |-> "", err |-> "dylib not found"]

\* ---------------------------------------------------------- library loader
\* Dropping a Library value closes it (a closed library's path is forgotten).
ClosedLibrary == [path |-> "", open |-> FALSE]
Library_drop(w, lib) ==
    Emit([w EXCEPT !.libs[lib] = ClosedLibrary], Ev("Library::drop", lib, 0, 0, 0, NoFile))

FirstMissing(symbols) ==
    LET missing == { i \in 1..Len(SymbolOrder) : SymbolOrder[i] \notin symbols }
    IN IF missing = {} THEN NoneStr
       ELSE Some(SymbolOrder[CHOOSE i \in missing : \A j \in missing : i <= j])

\* The foreign-function table of a FluidBridgeLibrary: the symbols bound.
NoTable == [some |-> FALSE, v |-> {}]

\* Faulty variant: a symbol the dylib does not export is left out of the table.
FluidBridgeLibrary_load_partial(w, explicit_path, env, debug_assertions) ==
    LET r == resolve_bridge_dylib_path(explicit_path, env.fs, debug_assertions)
        w1 == Emit(w, Ev("resolve_bridge_dylib_path", 0, 0, 0, 0, NoFile))
    IN IF ~r.ok THEN [w |-> w1, ok |-> FALSE, err |-> r.err, lib |-> 0, table |-> NoTable]
       ELSE IF ~env.dlopen_ok
       THEN [w |-> Emit(w1, Ev("Library::new", 0, 0, 0, 0, NoFile)),
             ok |-> FALSE, err |-> "failed to load dylib", lib |-> 0, table |-> NoTable]
       ELSE LET lib == Len(w1.libs) + 1
                w2 == Emit([w1 EXCEPT !.libs = Append(@, [path |-> r.path, open |-> TRUE])],
                           Ev("Library::new", lib, 0, 0, 0, NoFile))
            IN [w |-> w2, ok |-> TRUE, err |-> "", lib |-> lib,
                table |-> Some(Symbols \cap env.symbols)]

\* env: fs, dlopen_ok (Library::new succeeds), symbols (those the dylib exports).
FluidBridgeLibrary_load(w, explicit_path, env, debug_assertions) ==
    LET r == resolve_bridge_dylib_path(explicit_path, env.fs, debug_assertions)
        w1 == Emit(w, Ev("resolve_bridge_dylib_path", 0, 0, 0, 0, NoFile))
    IN IF ~r.ok THEN [w |-> w1, ok |-> FALSE, err |-> r.err, lib |-> 0, table |-> NoTable]
       ELSE IF ~env.dlopen_ok
       THEN [w |-> Emit(w1, Ev("Library::new", 0, 0, 0, 0, NoFile)),
             ok |-> FALSE, err |-> "failed to load dylib", lib |-> 0, table |-> NoTable]
       ELSE LET lib == Len(w1.libs) + 1
                again == \E i \in 1..Len(w1.libs) :
                             w1.libs[i].open /\ w1.libs[i].path = r.path
                w2 == Emit([w1 EXCEPT !.libs = Append(@, [path |-> r.path, open |-> TRUE])],
                           [Ev("Library::new", lib, 0, 0, 0, NoFile)
                               EXCEPT !.again = again])
                missing == FirstMissing(env.symbols)
            IN IF missing.some
               THEN [w |-> Library_drop(w2, lib), ok |-> FALSE,
                     err |-> "missing Fluid bridge symbol " \o missing.v, lib |-> 0,
                     table |-> NoTable]
               ELSE [w |-> w2, ok |-> TRUE, err |-> "", lib |-> lib,
                     table |-> Some({ SymbolOrder[i] : i \in 1..Len(SymbolOrder) })]

\* ---------------------------------------------------------- bridge session
\* Faulty variant: FluidBridge::new without the null check on the handle.
FluidBridge_new_unchecked(w, asr_model_dir, diarization_model_dir, major, explicit_path, env, debug_assertions) ==
    LET l == FluidBridgeLibrary_load(w, explicit_path, env, debug_assertions)
    IN IF ~l.ok THEN [w |-> l.w, ok |-> FALSE, err |-> l.err, bridge |-> NoBridge]
       ELSE LET h == IF env.create_null THEN 0 ELSE l.w.created + 1
                payload_bytes ==
                    BridgeConfigPayload(asr_model_dir, diarization_model_dir, major)
                w1 == Emit([l.w EXCEPT !.created = IF h = 0 THEN @ ELSE @ + 1],
                           [Ev("glimpse_fluid_create", l.lib, h, 0, 0, NoFile)
                               EXCEPT !.payload = payload_bytes])
            IN [w |-> w1, ok |-> TRUE, err |-> "", bridge |-> Bridge(l.lib, h)]

\* env.create_null: foreign create returns a null handle.
FluidBridge_new(w, asr_model_dir, diarization_model_dir, major, explicit_path, env, debug_assertions) ==
    LET l == FluidBridgeLibrary_load(w, explicit_path, env, debug_assertions)
    IN IF ~l.ok THEN [w |-> l.w, ok |-> FALSE, err |-> l.err, bridge |-> NoBridge]
       ELSE LET h == IF env.create_null THEN 0 ELSE l.w.created + 1
                payload_bytes ==
                    BridgeConfigPayload(asr_model_dir, diarization_model_dir, major)
                w1 == Emit([l.w EXCEPT !.created = IF h = 0 THEN @ ELSE @ + 1],
                           [Ev("glimpse_fluid_create", l.lib, h, 0, 0, NoFile)
                               EXCEPT !.payload = payload_bytes])
            IN IF h = 0
               THEN [w |-> Library_drop(w1, l.lib), ok |-> FALSE,
                     err |-> "Fluid bridge failed to initialize", bridge |-> NoBridge]
               ELSE [w |-> w1, ok |-> TRUE, err |-> "", bridge |-> Bridge(l.lib, h)]

\* Faulty variant: Drop that forgets the foreign destroy call.
FluidBridge_drop_forgets(w, b) == w

\* impl Drop for FluidBridge: destroy the handle unless it is the sentinel.
FluidBridge_drop(w, b) ==
    IF b.handle = 0 THEN w
    ELSE Emit([w EXCEPT !.destroyCalls[b.handle] = @ + 1],
              Ev("glimpse_fluid_destroy", b.library, b.handle, 0, 0, NoFile))

\* Faulty variant: the library is closed before the handle is destroyed.
DropOptionBridge_library_first(w, b) ==
    IF ~b.present THEN w
    ELSE FluidBridge_drop(Library_drop(w, b.library), b)

\* Dropping an Option<FluidBridge>: Drop::drop, then the fields (the only Arc
\* of the library goes, so the library is closed).
DropOptionBridge(w, b) ==
    IF ~b.present THEN w
    ELSE Library_drop(FluidBridge_drop(w, b), b.library)

\* ------------------------------------------------------------ results
\* preview: the payload preview an error message ends with, if it has one; len
\* is the number of raw payload bytes shown, ellipsis whether "..." follows.
NoPreview == [some |-> FALSE, len |-> 0, ellipsis |-> FALSE]
OkResult ==
    [ok |-> TRUE, kind |-> "Ok", code |-> "", message |-> "", preview |-> NoPreview]
Err(kind) ==
    [ok |-> FALSE, kind |-> kind, code |-> "", message |-> "", preview |-> NoPreview]
ErrWithPreview(kind, preview) ==
    [ok |-> FALSE, kind |-> kind, code |-> "", message |-> "", preview |-> preview]
NativeError(code, message) ==
    [ok |-> FALSE, kind |-> "NativeError", code |-> code, message |-> message,
     preview |-> NoPreview]

\* ------------------------------------------------------- envelope codec
\* Response bytes, by what serde_json makes of them.  decodes: the bytes are
\* JSON of the envelope's shape (schema_version: u32, ok: bool, and an error
\* that is absent, null or {code, message}).  data and error may be absent,
\* null or a value; the data value has the transcript's shape or another.
\* len is the number of bytes.
MAX_PREVIEW_BYTES == 240
PayloadLens == {MAX_PREVIEW_BYTES - 1, MAX_PREVIEW_BYTES, MAX_PREVIEW_BYTES + 1}
ResponseLen == MAX_PREVIEW_BYTES + 1
ErrorCodes == {"unsupported_platform", "transcribe_failed"}
ErrorMessages == {"macOS 13 is unsupported"}
DataFields == {"absent", "null", "transcript", "mistyped"}
ErrorFields ==
    {[kind |-> "absent", code |-> "", message |-> ""],
     [kind |-> "null", code |-> "", message |-> ""]}
    \cup [kind : {"object"}, code : ErrorCodes, message : ErrorMessages]
SchemaVersions == 0..(BRIDGE_SCHEMA_VERSION + 1)
MalformedOf(len) ==
    [decodes |-> FALSE, len |-> len, schema_version |-> 0, ok |-> FALSE,
     data |-> "absent", error |-> [kind |-> "absent", code |-> "", message |-> ""]]
Malformed == MalformedOf(ResponseLen)
Envelopes ==
    { MalformedOf(len) : len \in {1} \cup PayloadLens }
    \cup [decodes : {TRUE}, len : PayloadLens, schema_version : SchemaVersions,
          ok : BOOLEAN, data : DataFields, error : ErrorFields]

Min(a, b) == IF a < b THEN a ELSE b
preview_payload(bytes) ==
    [some |-> TRUE, len |-> Min(bytes.len, MAX_PREVIEW_BYTES),
     ellipsis |-> bytes.len > MAX_PREVIEW_BYTES]

\* serde: an Option field is None when the key is absent or its value is null.
DataIsNone(bytes) == bytes.data \in {"absent", "null"}
ErrorIsNone(bytes) == bytes.error.kind \in {"absent", "null"}

\* Faulty variant: parse_bridge_payload without the schema version check.
parse_bridge_payload_any_version(bytes) ==
    IF ~bytes.decodes
    THEN ErrWithPreview("failed to decode envelope", preview_payload(bytes))
    ELSE IF ~bytes.ok
    THEN IF ErrorIsNone(bytes) THEN Err("failed without error payload")
         ELSE NativeError(bytes.error.code, bytes.error.message)
    ELSE IF DataIsNone(bytes) THEN Err("succeeded without payload")
    ELSE IF bytes.data # "transcript" THEN Err("failed to decode payload")
    ELSE OkResult

\* Faulty variant: parse_bridge_payload that looks at data before ok.
parse_bridge_payload_data_first(bytes) ==
    IF ~bytes.decodes
    THEN ErrWithPreview("failed to decode envelope", preview_payload(bytes))
    ELSE IF bytes.schema_version # BRIDGE_SCHEMA_VERSION THEN Err("schema mismatch")
    ELSE IF bytes.data = "transcript" THEN OkResult
    ELSE IF ~bytes.ok
    THEN IF ErrorIsNone(bytes) THEN Err("failed without error payload")
         ELSE NativeError(bytes.error.code, bytes.error.message)
    ELSE IF DataIsNone(bytes) THEN Err("succeeded without payload")
    ELSE Err("failed to decode payload")

parse_bridge_payload(bytes) ==
    IF ~bytes.decodes
    THEN ErrWithPreview("failed to decode envelope", preview_payload(bytes))
    ELSE IF bytes.schema_version # BRIDGE_SCHEMA_VERSION THEN Err("schema mismatch")
    ELSE IF ~bytes.ok
    THEN IF ErrorIsNone(bytes) THEN Err("failed without error payload")
         ELSE NativeError(bytes.error.code, bytes.error.message)
    ELSE IF DataIsNone(bytes) THEN Err("succeeded without payload")
    ELSE IF bytes.data # "transcript" THEN Err("failed to decode payload")
    ELSE OkResult

\* ------------------------------------------------------ transcript assembly
\* A string is the sequence of its characters.
IsWhitespace(c) == c \in {" ", "\t", "\n", "\r"}

RECURSIVE trim_start(_)
trim_start(s) ==
    IF s = << >> THEN s
    ELSE IF IsWhitespace(Head(s)) THEN trim_start(Tail(s)) ELSE s

RECURSIVE trim_end(_)
trim_end(s) ==
    IF s = << >> THEN s
    ELSE IF IsWhitespace(s[Len(s)]) THEN trim_end(SubSeq(s, 1, Len(s) - 1)) ELSE s

\* str::trim
trim(s) == trim_end(trim_start(s))

\* [&str]::join(sep)
RECURSIVE join(_, _)
join(strs, sep) ==
    IF strs = << >> THEN << >>
    ELSE IF Len(strs) = 1 THEN strs[1]
    ELSE strs[1] \o sep \o join(Tail(strs), sep)

\* u64 as f32: the nearest value with a 24-bit significand, ties to even.
F32_SIGNIFICAND == 16777216
RECURSIVE F32Ulp(_, _)
F32Ulp(n, ulp) == IF n \div ulp < F32_SIGNIFICAND THEN ulp ELSE F32Ulp(n, 2 * ulp)
as_f32(n) ==
    LET ulp == F32Ulp(n, 1)
        q == n \div ulp
        r == n % ulp
    IN IF 2 * r < ulp \/ (2 * r = ulp /\ q % 2 = 0) THEN q * ulp ELSE (q + 1) * ulp

\* ms as f32 / 1000.0: seconds, kept as the quotient's two terms.
MS_PER_SECOND == 1000
Seconds(ms) == [ms |-> as_f32(ms), per |-> MS_PER_SECOND]

TranscriptionSegment(start, end, text) == [start |-> start, end |-> end, text |-> text]
NoSegments == [some |-> FALSE, v |-> << >>]

\* the filter_map over the payload's segments
RECURSIVE FilterMapSegments(_)
FilterMapSegments(segments) ==
    IF segments = << >> THEN << >>
    ELSE LET segment == Head(segments)
         IN IF segment.end_ms <= segment.start_ms \/ trim(segment.text) = << >>
            THEN FilterMapSegments(Tail(segments))
            ELSE << TranscriptionSegment(Seconds(segment.start_ms),
                                         Seconds(segment.end_ms), segment.text) >>
                 \o FilterMapSegments(Tail(segments))

\* the trimmed texts of the segments that are not empty, in order
RECURSIVE TrimmedTexts(_)
TrimmedTexts(segments) ==
    IF segments = << >> THEN << >>
    ELSE (IF trim(Head(segments).text) = << >> THEN << >>
          ELSE << trim(Head(segments).text) >>)
         \o TrimmedTexts(Tail(segments))

\* Faulty variant: the segments field is present also when it is empty.
into_transcription_result_always_some(self) ==
    LET text == trim(self.text)
        segments == FilterMapSegments(self.segments)
    IN [text |-> IF text = << >> THEN join(TrimmedTexts(segments), << "\n" >>) ELSE text,
        segments |-> Some(segments)]

\* Faulty variant: the filter keeps a segment whose end is its start.
into_transcription_result_keeps_empty_span(self) ==
    LET text == trim(self.text)
        kept == SelectSeq(self.segments,
                          LAMBDA g : ~(g.end_ms < g.start_ms \/ trim(g.text) = << >>))
        segments == [i \in 1..Len(kept) |->
                       TranscriptionSegment(Seconds(kept[i].start_ms),
                                            Seconds(kept[i].end_ms), kept[i].text)]
    IN [text |-> IF text = << >> THEN join(TrimmedTexts(segments), << "\n" >>) ELSE text,
        segments |-> IF segments = << >> THEN NoSegments ELSE Some(segments)]

\* Faulty variant: the text is never made of the segments.
into_transcription_result_never_joins(self) ==
    LET text == trim(self.text)
        segments == FilterMapSegments(self.segments)
    IN [text |-> text,
        segments |-> IF segments = << >> THEN NoSegments ELSE Some(segments)]

into_transcription_result(self) ==
    LET text == trim(self.text)
        segments == FilterMapSegments(self.segments)
    IN [text |-> IF text = << >> THEN join(TrimmedTexts(segments), << "\n" >>) ELSE text,
        segments |-> IF segments = << >> THEN NoSegments ELSE Some(segments)]

\* ---------------------------------------------------- request normalization
UpperCase ==
    << "A", "B", "C", "D", "E", "F", "G", "H", "I", "J", "K", "L", "M",
       "N", "O", "P", "Q", "R", "S", "T", "U", "V", "W", "X", "Y", "Z" >>
LowerCase ==
    << "a", "b", "c", "d", "e", "f", "g", "h", "i", "j", "k", "l", "m",
       "n", "o", "p", "q", "r", "s", "t", "u", "v", "w", "x", "y", "z" >>
\* str::to_ascii_lowercase
to_ascii_lowercase(s) ==
    [i \in 1..Len(s) |->
        IF \E k \in 1..Len(UpperCase) : UpperCase[k] = s[i]
        THEN LowerCase[CHOOSE k \in 1..Len(UpperCase) : UpperCase[k] = s[i]]
        ELSE s[i]]

\* the loop of normalize_vocabulary over the values left, with out and seen
RECURSIVE NormalizeLoop(_, _, _)
NormalizeLoop(values, out, seen) ==
    IF values = << >> THEN out
    ELSE LET trimmed == trim(Head(values))
             key == to_ascii_lowercase(trimmed)
         IN IF trimmed = << >> THEN NormalizeLoop(Tail(values), out, seen)
            ELSE IF key \notin seen
            THEN NormalizeLoop(Tail(values), Append(out, trimmed), seen \cup {key})
            ELSE NormalizeLoop(Tail(values), out, seen)

normalize_vocabulary(values) == NormalizeLoop(values, << >>, {})

\* Option<String> of a string kept as its characters
NoneText == [some |-> FALSE, v |-> << >>]

\* raw.split(seps).next(): the part before the first separator
RECURSIVE BeforeFirst(_, _)
BeforeFirst(s, seps) ==
    IF s = << >> THEN << >>
    ELSE IF Head(s) \in seps THEN << >>
    ELSE << Head(s) >> \o BeforeFirst(Tail(s), seps)

normalize_language_hint(value) ==
    IF ~value.some THEN NoneText
    ELSE LET raw == trim(value.v)
         IN IF raw = << >> THEN NoneText
            ELSE LET base == BeforeFirst(raw, {"-", "_"})
                     normalized_hint == to_ascii_lowercase(trim(base))
                 IN IF normalized_hint = << >> THEN NoneText
                    ELSE Some(normalized_hint)

\* ------------------------------------------------------ session transcribe
\* FluidTimestampGranularity::as_wire_value
as_wire_value(self) ==
    CASE self = "WordPreferred" -> "word_preferred"
      [] self = "SegmentsOnly" -> "segments_only"

\* The request of foreign transcribe_wav.
BridgeTranscribePayload(params) ==
    [schema_version |-> BRIDGE_SCHEMA_VERSION,
     language_hint |-> normalize_language_hint(params.language),
     vocabulary |-> normalize_vocabulary(params.vocabulary),
     timestamps |-> as_wire_value(params.timestamp_granularity)]

\* take_buffer: copy the response out of the foreign buffer and give the
\* buffer back.
take_buffer(w, ptr, len) ==
    IF ptr = 0 \/ len <= 0
    THEN [w |-> w, ok |-> FALSE, err |-> Err("empty response")]
    ELSE [w |-> Emit(w, Ev("glimpse_fluid_free_buffer", 0, 0, ptr, len, NoFile)),
          ok |-> TRUE, err |-> OkResult]

\* active_handle: the handle under the lock, unless it is the sentinel.
active_handle(b) ==
    IF b.handle = 0 THEN [ok |-> FALSE, handle |-> 0]
    ELSE [ok |-> TRUE, handle |-> b.handle]

\* Faulty variant: the path is converted after the foreign call.
FluidBridge_transcribe_nul_check_late(w, b, wav_path, params, env) ==
    LET a == active_handle(b)
    IN IF ~a.ok THEN [w |-> w, result |-> Err("handle is unavailable")]
       ELSE LET w1 == Emit(w, [Ev("glimpse_fluid_transcribe_wav", b.library,
                                  a.handle, env.out_ptr, env.out_len, NoFile)
                                  EXCEPT !.payload = BridgeTranscribePayload(params)])
                t == take_buffer(w1, env.out_ptr, env.out_len)
            IN IF wav_path.has_nul THEN [w |-> t.w, result |-> Err("interior null bytes")]
               ELSE IF ~t.ok THEN [w |-> t.w, result |-> t.err]
               ELSE [w |-> t.w, result |-> parse_bridge_payload(env.response)]

\* wav_path: exists, has_nul.  env: out_ptr, out_len (what foreign transcribe
\* returns), response (the bytes behind out_ptr).
FluidBridge_transcribe(w, b, wav_path, params, env) ==
    IF wav_path.has_nul THEN [w |-> w, result |-> Err("interior null bytes")]
    ELSE LET a == active_handle(b)
         IN IF ~a.ok THEN [w |-> w, result |-> Err("handle is unavailable")]
            ELSE LET w1 == Emit(w, [Ev("glimpse_fluid_transcribe_wav", b.library,
                                       a.handle, env.out_ptr, env.out_len, NoFile)
                                       EXCEPT !.payload = BridgeTranscribePayload(params)])
                     t == take_buffer(w1, env.out_ptr, env.out_len)
                 IN IF ~t.ok THEN [w |-> t.w, result |-> t.err]
                    ELSE [w |-> t.w, result |-> parse_bridge_payload(env.response)]

\* ------------------------------------------------- audio validator/decoder
I16_MIN == -32768
I16_MAX == 32767

WavSpec(channels, sample_rate, bits_per_sample, sample_format) ==
    [channels |-> channels, sample_rate |-> sample_rate,
     bits_per_sample |-> bits_per_sample, sample_format |-> sample_format]

\* The error of a failed check: the field it names and the value found (a
\* number, or a sample format).
NoAudioError == [expected |-> "", found |-> 0, found_format |-> ""]
AudioError(expected, found) ==
    [expected |-> expected, found |-> found, found_format |-> ""]
AudioFormatError(expected, found_format) ==
    [expected |-> expected, found |-> 0, found_format |-> found_format]
AudioErr(err) == [ok |-> FALSE, samples |-> << >>, err |-> err]

\* s as f32 / i16::MAX as f32, kept as the quotient's two terms.
DecodeSample(s) == [num |-> s, den |-> I16_MAX]

\* Faulty variant: the sample rate is checked before the channels.
read_wav_samples_rate_first(file) ==
    IF ~file.opens THEN AudioErr(AudioError("WavReader::open", 0))
    ELSE IF file.spec.sample_rate # 16000
    THEN AudioErr(AudioError("Expected 16000 Hz sample rate", file.spec.sample_rate))
    ELSE IF file.spec.channels # 1
    THEN AudioErr(AudioError("Expected 1 channel", file.spec.channels))
    ELSE IF file.spec.bits_per_sample # 16
    THEN AudioErr(AudioError("Expected 16 bits per sample", file.spec.bits_per_sample))
    ELSE IF file.spec.sample_format # "Int"
    THEN AudioErr(AudioFormatError("Expected Int sample format", file.spec.sample_format))
    ELSE IF ~file.readable THEN AudioErr(AudioError("samples", 0))
    ELSE [ok |-> TRUE,
          samples |-> [i \in 1..Len(file.data) |-> DecodeSample(file.data[i])],
          err |-> NoAudioError]

\* file: opens (WavReader::open succeeds), spec (the header's WavSpec), data
\* (the frames), readable (every frame can be read).
read_wav_samples(file) ==
    IF ~file.opens THEN AudioErr(AudioError("WavReader::open", 0))
    ELSE IF file.spec.channels # 1
    THEN AudioErr(AudioError("Expected 1 channel", file.spec.channels))
    ELSE IF file.spec.sample_rate # 16000
    THEN AudioErr(AudioError("Expected 16000 Hz sample rate", file.spec.sample_rate))
    ELSE IF file.spec.bits_per_sample # 16
    THEN AudioErr(AudioError("Expected 16 bits per sample", file.spec.bits_per_sample))
    ELSE IF file.spec.sample_format # "Int"
    THEN AudioErr(AudioFormatError("Expected Int sample format", file.spec.sample_format))
    ELSE IF ~file.readable THEN AudioErr(AudioError("samples", 0))
    ELSE [ok |-> TRUE,
          samples |-> [i \in 1..Len(file.data) |-> DecodeSample(file.data[i])],
          err |-> NoAudioError]

\* ------------------------------------------------------ temporary medium
\* fetch_add on the counter; the name is made of the clock and the count.  (The
\* counter is a u64: it cannot wrap within MaxTemp calls.)
unique_temp_wav_name(w, nanos) ==
    [w |-> [w EXCEPT !.counter = @ + 1], name |-> << nanos, w.counter >>]

\* AtomicU64::fetch_add: one step that returns the value found and stores the
\* sum.
\* Faulty variant: the sum is not stored.
fetch_add_not_stored(value, n) == [previous |-> value, stored |-> value]
fetch_add(value, n) == [previous |-> value, stored |-> value + n]

\* format!("{n}") of an unsigned integer.
RECURSIVE Decimal(_)
Decimal(n) ==
    LET digit == << "0", "1", "2", "3", "4", "5", "6", "7", "8", "9" >>[(n % 10) + 1]
    IN IF n < 10 THEN << digit >> ELSE Append(Decimal(n \div 10), digit)

\* format!("glimpse-speech-fluid-{nanos}-{counter}.wav")
format_temp_wav_name(nanos, counter) ==
    << "glimpse-speech-fluid-" >> \o Decimal(nanos) \o << "-" >> \o Decimal(counter)
        \o << ".wav" >>

\* env: nanos (the clock, 0 when it cannot be read), wav_io (where writing
\* the file fails, if anywhere).
TempWav_from_f32_samples_16khz(w, nsamples, env) ==
    LET n == unique_temp_wav_name(w, env.nanos)
    IN IF env.wav_io = "create_fails"
       THEN [w |-> n.w, ok |-> FALSE, path |-> NoFile]
       ELSE LET w1 == Emit([n.w EXCEPT !.files = @ \cup {n.name}],
                           Ev("WavWriter::create", 0, 0, 0, 0, n.name))
            IN IF nsamples > 0 /\ env.wav_io = "write_fails"
               THEN [w |-> w1, ok |-> FALSE, path |-> NoFile]
               ELSE IF env.wav_io = "finalize_fails"
               THEN [w |-> w1, ok |-> FALSE, path |-> NoFile]
               ELSE [w |-> w1, ok |-> TRUE, path |-> n.name]

\* impl Drop for TempWav
TempWav_drop(w, path) ==
    Emit([w EXCEPT !.files = @ \ {path}], Ev("remove_file", 0, 0, 0, 0, path))

\* ----------------------------------------------------------- engine facade
\* Faulty variant: the detected version taken before the one the caller gives.
runtime_macos_major_detected_first(params, env) ==
    IF env.detected.some THEN env.detected ELSE params.runtime_macos_major

\* params.runtime_macos_major.or_else(detect_macos_major)
runtime_macos_major(params, env) ==
    IF params.runtime_macos_major.some THEN params.runtime_macos_major ELSE env.detected

\* Faulty variant: a load that fails in FluidBridge::new unloads the engine.
load_model_with_params_unloads_on_failure(w, eng, model_path, params, env, bld) ==
    IF bld.target_os # "macos"
    THEN [w |-> w, eng |-> eng, result |-> Err("only supported on macOS")]
    ELSE IF ~env.model_exists
    THEN [w |-> w, eng |-> eng, result |-> Err("Model directory not found")]
    ELSE LET major == IF params.runtime_macos_major.some
                      THEN params.runtime_macos_major ELSE env.detected
         IN IF ~major.some
            THEN [w |-> w, eng |-> eng,
                  result |-> Err("failed to determine macOS version")]
            ELSE IF major.v < MIN_MACOS_MAJOR
            THEN [w |-> w, eng |-> eng, result |-> Err("requires macOS 14+")]
            ELSE LET n == FluidBridge_new(w, model_path, params.diarization_model_dir,
                                          major.v, params.dylib_path, env,
                                          bld.debug_assertions)
                 IN IF ~n.ok
                    THEN [w |-> DropOptionBridge(n.w, eng.bridge),
                          eng |-> [eng EXCEPT !.loaded_model_path = NoneStr,
                                              !.bridge = NoBridge],
                          result |-> Err(n.err)]
                    ELSE [w |-> DropOptionBridge(n.w, eng.bridge),
                          eng |-> [eng EXCEPT !.loaded_model_path = Some(model_path),
                                              !.bridge = n.bridge],
                          result |-> OkResult]

\* Faulty variant: the session held is dropped before the new one is created.
load_model_with_params_destroys_first(w, eng, model_path, params, env, bld) ==
    IF bld.target_os # "macos"
    THEN [w |-> w, eng |-> eng, result |-> Err("only supported on macOS")]
    ELSE IF ~env.model_exists
    THEN [w |-> w, eng |-> eng, result |-> Err("Model directory not found")]
    ELSE LET major == IF params.runtime_macos_major.some
                      THEN params.runtime_macos_major ELSE env.detected
         IN IF ~major.some
            THEN [w |-> w, eng |-> eng,
                  result |-> Err("failed to determine macOS version")]
            ELSE IF major.v < MIN_MACOS_MAJOR
            THEN [w |-> w, eng |-> eng, result |-> Err("requires macOS 14+")]
            ELSE LET n == FluidBridge_new(DropOptionBridge(w, eng.bridge), model_path,
                                          params.diarization_model_dir, major.v,
                                          params.dylib_path, env, bld.debug_assertions)
                 IN IF ~n.ok
                    THEN [w |-> n.w,
                          eng |-> [eng EXCEPT !.loaded_model_path = NoneStr,
                                              !.bridge = NoBridge],
                          result |-> Err(n.err)]
                    ELSE [w |-> n.w,
                          eng |-> [eng EXCEPT !.loaded_model_path = Some(model_path),
                                              !.bridge = n.bridge],
                          result |-> OkResult]

\* params: dylib_path, runtime_macos_major.  env: model_exists, detected (the
\* result of detect_macos_major) and what FluidBridge::new needs.
load_model_with_params(w, eng, model_path, params, env, bld) ==
    IF bld.target_os # "macos"
    THEN [w |-> w, eng |-> eng, result |-> Err("only supported on macOS")]
    ELSE IF ~env.model_exists
    THEN [w |-> w, eng |-> eng, result |-> Err("Model directory not found")]
    ELSE LET major == runtime_macos_major(params, env)
         IN IF ~major.some
            THEN [w |-> w, eng |-> eng,
                  result |-> Err("failed to determine macOS version")]
            ELSE IF major.v < MIN_MACOS_MAJOR
            THEN [w |-> w, eng |-> eng, result |-> Err("requires macOS 14+")]
            ELSE LET n == FluidBridge_new(w, model_path, params.diarization_model_dir,
                                          major.v, params.dylib_path, env,
                                          bld.debug_assertions)
                 IN IF ~n.ok
                    THEN [w |-> n.w, eng |-> eng, result |-> Err(n.err)]
                    ELSE [w |-> DropOptionBridge(n.w, eng.bridge),
                          eng |-> [eng EXCEPT !.loaded_model_path = Some(model_path),
                                              !.bridge = n.bridge],
                          result |-> OkResult]

\* Faulty variant: unload_model that drops the session's resources but keeps
\* the bridge value in the engine.
unload_model_keeps_bridge(w, eng) ==
    [w |-> DropOptionBridge(w, eng.bridge),
     eng |-> [eng EXCEPT !.loaded_model_path = NoneStr],
     result |-> OkResult]

unload_model(w, eng) ==
    [w |-> DropOptionBridge(w, eng.bridge),
     eng |-> [eng EXCEPT !.loaded_model_path = NoneStr, !.bridge = NoBridge],
     result |-> OkResult]

\* impl Drop for FluidEngine: unload_model, then the fields.
FluidEngine_drop(w, eng) ==
    LET u == unload_model(w, eng)
    IN [w |-> DropOptionBridge(u.w, u.eng.bridge),
        eng |-> [u.eng EXCEPT !.alive = FALSE],
        result |-> OkResult]

\* Option<params> of a caller who gives none
NoParams == [some |-> FALSE]
FluidInferenceParams_default ==
    [language |-> NoneText, vocabulary |-> << >>,
     timestamp_granularity |-> "WordPreferred"]

transcribe_file(w, eng, wav_path, params, env) ==
    IF ~eng.bridge.present
    THEN [w |-> w, eng |-> eng, result |-> Err("Model not loaded")]
    ELSE IF ~wav_path.exists
    THEN [w |-> w, eng |-> eng, result |-> Err("Audio file not found")]
    ELSE LET t == FluidBridge_transcribe(
                      w, eng.bridge, wav_path,
                      IF params.some THEN params.v ELSE FluidInferenceParams_default,
                      env)
         IN [w |-> t.w, eng |-> eng, result |-> t.result]

\* ------------------------------------------------------------- the facades
ParakeetInferenceParams_default ==
    [timestamp_granularity |-> "Token", language |-> NoneText, vocabulary |-> << >>]
\* temperature in tenths
WhisperfileInferenceParams_default ==
    [language |-> NoneText, translate |-> FALSE, temperature |-> NoneInt,
     response_format |-> Some("verbose_json"), vocabulary |-> << >>]

\* Faulty variant: Word is mapped as Segment is.
parakeet_map_inference_params_word_as_segment(params) ==
    LET p == IF params.some THEN params.v ELSE ParakeetInferenceParams_default
    IN [language |-> p.language, vocabulary |-> p.vocabulary,
        timestamp_granularity |->
            CASE p.timestamp_granularity \in {"Segment", "Word"} -> "SegmentsOnly"
              [] p.timestamp_granularity = "Token" -> "WordPreferred"]

\* map_inference_params of parakeet.rs
parakeet_map_inference_params(params) ==
    LET p == IF params.some THEN params.v ELSE ParakeetInferenceParams_default
    IN [language |-> p.language, vocabulary |-> p.vocabulary,
        timestamp_granularity |->
            CASE p.timestamp_granularity = "Segment" -> "SegmentsOnly"
              [] p.timestamp_granularity \in {"Token", "Word"} -> "WordPreferred"]

\* Faulty variant: translate sets the language to English.
whisperfile_map_inference_params_translate(params) ==
    LET p == IF params.some THEN params.v ELSE WhisperfileInferenceParams_default
    IN [language |-> IF p.translate THEN Some(<< "e", "n" >>) ELSE p.language,
        vocabulary |-> p.vocabulary, timestamp_granularity |-> "WordPreferred"]

\* map_inference_params of whisperfile.rs
whisperfile_map_inference_params(params) ==
    LET p == IF params.some THEN params.v ELSE WhisperfileInferenceParams_default
    IN [language |-> p.language, vocabulary |-> p.vocabulary,
        timestamp_granularity |-> "WordPreferred"]

\* The facades' model parameters as those of the bridge engine.  A model path
\* is a directory and, when it names a file, the file's name in it.
FluidModelParams(params) ==
    [diarization_model_dir |-> params.diarization_model_dir,
     dylib_path |-> params.dylib_path,
     runtime_macos_major |-> params.runtime_macos_major]
ParakeetEngine_effective_model_path(model_path) == model_path
WhisperfileEngine_effective_model_path(model_path) ==
    IF model_path.file.some THEN [model_path EXCEPT !.file = NoneStr] ELSE model_path

ParakeetEngine_load_model_with_params(w, eng, model_path, params, env, bld) ==
    load_model_with_params(w, eng, ParakeetEngine_effective_model_path(model_path),
                           FluidModelParams(params), env, bld)
WhisperfileEngine_load_model_with_params(w, eng, model_path, params, env, bld) ==
    load_model_with_params(w, eng, WhisperfileEngine_effective_model_path(model_path),
                           FluidModelParams(params), env, bld)

\* The two facades over FluidEngine: transcribe_file of the inner engine, with
\* the inference parameters mapped.
ParakeetEngine_transcribe_file(w, eng, wav_path, params, env) ==
    transcribe_file(w, eng, wav_path, Some(parakeet_map_inference_params(params)), env)
WhisperfileEngine_transcribe_file(w, eng, wav_path, params, env) ==
    transcribe_file(w, eng, wav_path, Some(whisperfile_map_inference_params(params)), env)

\* Faulty variant: transcribe_samples without the check for a loaded session.
transcribe_samples_unchecked(w, eng, nsamples, params, env) ==
    LET temp_wav == TempWav_from_f32_samples_16khz(w, nsamples, env)
    IN IF ~temp_wav.ok
       THEN [w |-> temp_wav.w, eng |-> eng, result |-> Err("wav write failed")]
       ELSE LET r == transcribe_file(
                         temp_wav.w, eng,
                         [exists |-> temp_wav.path \in temp_wav.w.files,
                          has_nul |-> FALSE],
                         params, env)
            IN [w |-> TempWav_drop(r.w, temp_wav.path), eng |-> r.eng,
                result |-> r.result]

transcribe_samples(w, eng, nsamples, params, env) ==
    IF ~eng.bridge.present
    THEN [w |-> w, eng |-> eng, result |-> Err("Model not loaded")]
    ELSE LET temp_wav == TempWav_from_f32_samples_16khz(w, nsamples, env)
         IN IF ~temp_wav.ok
            THEN [w |-> temp_wav.w, eng |-> eng, result |-> Err("wav write failed")]
            ELSE LET r == transcribe_file(
                              temp_wav.w, eng,
                              [exists |-> temp_wav.path \in temp_wav.w.files,
                               has_nul |-> FALSE],
                              params, env)
                 IN [w |-> TempWav_drop(r.w, temp_wav.path), eng |-> r.eng,
                     result |-> r.result]

\* ------------------------------------------------------------------ inputs
OptMajors == {NoneInt} \cup { Some(m) : m \in MacosMajors }
ExplicitDylib == "custom/bridge.dylib"
EnvDylib == "env/bridge.dylib"
DylibParams == {NoneStr, Some(ExplicitDylib)}
\* The file systems tried: which dylib locations exist, the override variable,
\* and whether current_exe() is known.
FsScenarios ==
    { [exists |-> {}, env_var |-> NoneStr, current_exe |-> TRUE],
      [exists |-> {ExplicitDylib, EnvDylib, "exe/../Resources"},
       env_var |-> Some(EnvDylib), current_exe |-> TRUE],
      [exists |-> {"exe/../Frameworks", "swift-bridge/.build/release"},
       env_var |-> Some(EnvDylib), current_exe |-> FALSE] }
\* What loading and creating may do: Library::new fails; a symbol is missing;
\* create returns null; create returns a handle.
LibOutcomes ==
    { [dlopen_ok |-> FALSE, symbols |-> Symbols, create_null |-> FALSE] }
    \cup [dlopen_ok : {TRUE},
          symbols : { Symbols \ {"glimpse_fluid_create"},
                      Symbols \ {"glimpse_fluid_destroy", "glimpse_fluid_free_buffer"} },
          create_null : {FALSE}]
    \cup [dlopen_ok : {TRUE}, symbols : {Symbols}, create_null : BOOLEAN]
GoodLib == [dlopen_ok |-> TRUE, symbols |-> Symbols, create_null |-> FALSE]
\* What FluidBridge::new reads: the explicit path, the file system, the dylib.
\* Every file system is tried with a dylib that works, and every dylib at the
\* explicit path.
BridgeEnvs ==
    [dylib_path : DylibParams, fs : FsScenarios, lib : {GoodLib}]
    \cup { [dylib_path |-> Some(ExplicitDylib), fs |-> fs, lib |-> lib] :
             fs \in { f \in FsScenarios : ExplicitDylib \in f.exists },
             lib \in LibOutcomes }
NoBridgeEnv ==
    [dylib_path |-> NoneStr,
     fs |-> [exists |-> {}, env_var |-> NoneStr, current_exe |-> TRUE],
     lib |-> GoodLib]
\* The files named by wav_path: one that meets the PCM contract, one recorded
\* at 8000 Hz, no file, and a name with an interior null byte.
WavPaths ==
    { [exists |-> TRUE, has_nul |-> FALSE, spec |-> WavSpec(1, 16000, 16, "Int")],
      [exists |-> TRUE, has_nul |-> FALSE, spec |-> WavSpec(1, 8000, 16, "Int")],
      [exists |-> FALSE, has_nul |-> FALSE, spec |-> WavSpec(1, 16000, 16, "Int")],
      [exists |-> FALSE, has_nul |-> TRUE, spec |-> WavSpec(1, 16000, 16, "Int")] }
NoWavPath == [exists |-> FALSE, has_nul |-> FALSE, spec |-> WavSpec(1, 16000, 16, "Int")]
\* The engine types a caller may hold: the bridge engine and its two facades.
Facades == {"FluidEngine", "ParakeetEngine", "WhisperfileEngine"}
\* What foreign transcribe returns: a null or non-null pointer, and a length.
OutPtrs == {0, 1}
OutLens == {-1, 0, 1}
WavIo == {"ok", "create_fails", "write_fails", "finalize_fails"}
\* The clock: unreadable (0) on every call, the case that leaves the counter
\* alone to tell the names apart.
Clock == {0}
SampleCounts == {0, 1}

NoTranscribeEnv ==
    [out_ptr |-> 0, out_len |-> 0, response |-> Malformed, nanos |-> 0, wav_io |-> "ok"]
\* The responses the foreign side may produce: with no buffer (null pointer or
\* no length) there are no bytes to choose; with one, bytes of every outcome
\* of parse_bridge_payload.
Responses ==
    { Malformed,
      [decodes |-> TRUE, len |-> ResponseLen, schema_version |-> BRIDGE_SCHEMA_VERSION + 1, ok |-> TRUE,
       data |-> "transcript", error |-> [kind |-> "absent", code |-> "", message |-> ""]],
      [decodes |-> TRUE, len |-> ResponseLen, schema_version |-> BRIDGE_SCHEMA_VERSION, ok |-> FALSE,
       data |-> "transcript", error |-> [kind |-> "null", code |-> "", message |-> ""]],
      [decodes |-> TRUE, len |-> ResponseLen, schema_version |-> BRIDGE_SCHEMA_VERSION, ok |-> FALSE,
       data |-> "null",
       error |-> [kind |-> "object", code |-> "transcribe_failed",
                  message |-> "macOS 13 is unsupported"]],
      [decodes |-> TRUE, len |-> ResponseLen, schema_version |-> BRIDGE_SCHEMA_VERSION, ok |-> TRUE,
       data |-> "null", error |-> [kind |-> "absent", code |-> "", message |-> ""]],
      [decodes |-> TRUE, len |-> ResponseLen, schema_version |-> BRIDGE_SCHEMA_VERSION, ok |-> TRUE,
       data |-> "mistyped", error |-> [kind |-> "absent", code |-> "", message |-> ""]],
      [decodes |-> TRUE, len |-> ResponseLen, schema_version |-> BRIDGE_SCHEMA_VERSION, ok |-> TRUE,
       data |-> "transcript", error |-> [kind |-> "null", code |-> "", message |-> ""]] }
TranscribeEnvs ==
    { [out_ptr |-> p, out_len |-> n, response |-> Malformed, nanos |-> 0, wav_io |-> "ok"] :
        p \in OutPtrs, n \in OutLens }
    \cup { [out_ptr |-> 1, out_len |-> 1, response |-> b, nanos |-> 0, wav_io |-> "ok"] :
        b \in Responses }

\* A response of each kind: a transcript, and an error of the foreign side.
FewTranscribeEnvs ==
    { env \in TranscribeEnvs :
        /\ env.out_ptr = 1
        /\ env.out_len = 1
        /\ parse_bridge_payload(env.response).kind \in {"Ok", "NativeError"} }
\* What transcribe_file is called with: on the bridge engine, the file that
\* meets the PCM contract with every response; any other file, and every call
\* through a facade, with a response of each kind.
TranscribeFileEnvs(facade, wav_path) ==
    IF facade = "FluidEngine" /\ wav_path.spec = WavSpec(1, 16000, 16, "Int")
    THEN TranscribeEnvs ELSE FewTranscribeEnvs

\* For transcribe_samples: also the clock and the fate of the file's writer; a
\* file that could not be written is never transcribed.
SampleEnvs ==
    { [env EXCEPT !.nanos = nanos] : env \in TranscribeEnvs, nanos \in Clock }
    \cup { [NoTranscribeEnv EXCEPT !.nanos = nanos, !.wav_io = io] :
             nanos \in Clock, io \in WavIo \ {"ok"} }

NoArgs ==
    [model_exists |-> FALSE, runtime_macos_major |-> NoneInt, detected |-> NoneInt,
     facade |-> "FluidEngine", wav_path |-> NoWavPath]

\* ----------------------------------------------------------------- actions
Commit(e, op, r, args) ==
    /\ engines' = [engines EXCEPT ![e] = r.eng]
    /\ libs' = r.w.libs
    /\ created' = r.w.created
    /\ destroyCalls' = r.w.destroyCalls
    /\ files' = r.w.files
    /\ TEMP_WAV_COUNTER' = r.w.counter
    /\ last' = [op |-> op, engine |-> e, pre |-> engines[e], result |-> r.result,
                events |-> r.w.events, args |-> args]
    /\ UNCHANGED << build, bridgeVars, parseVars, pureVars >>

LoadEnv(model_exists, detected, b) ==
    [model_exists |-> model_exists, detected |-> detected, fs |-> b.fs,
     dlopen_ok |-> b.lib.dlopen_ok, symbols |-> b.lib.symbols,
     create_null |-> b.lib.create_null]
LoadParams(major, b) ==
    [diarization_model_dir |-> NoneStr, dylib_path |-> b.dylib_path,
     runtime_macos_major |-> major]

\* The inputs FluidBridge::new reads are drawn only for a call that gets to
\* read them.
LoadModel(e) ==
    /\ engines[e].alive
    /\ Len(libs) < MaxLoads
    /\ \E model_path \in ModelPaths, model_exists \in BOOLEAN,
          major \in OptMajors, detected \in OptMajors :
         LET probe == load_model_with_params(
                          World, engines[e], model_path, LoadParams(major, NoBridgeEnv),
                          LoadEnv(model_exists, detected, NoBridgeEnv), build)
         IN \E b \in IF probe.w.events = << >> THEN {NoBridgeEnv} ELSE BridgeEnvs :
              Commit(e, "load_model_with_params",
                     load_model_with_params(
                         World, engines[e], model_path, LoadParams(major, b),
                         LoadEnv(model_exists, detected, b), build),
                     [NoArgs EXCEPT !.model_exists = model_exists,
                                    !.runtime_macos_major = major,
                                    !.detected = detected])

UnloadModel(e) ==
    /\ engines[e].alive
    /\ Commit(e, "unload_model", unload_model(World, engines[e]), NoArgs)

DropEngine(e) ==
    /\ engines[e].alive
    /\ Commit(e, "drop", FluidEngine_drop(World, engines[e]), NoArgs)

\* The response is drawn only for a call that gets to the foreign side.
TranscribeFile(e) ==
    /\ engines[e].alive
    /\ \E wav_path \in WavPaths, facade \in Facades :
         LET probe == transcribe_file(World, engines[e], wav_path, NoParams, NoTranscribeEnv)
         IN \E env \in IF probe.w.events = << >> THEN {NoTranscribeEnv}
                      ELSE TranscribeFileEnvs(facade, wav_path) :
              Commit(e, "transcribe_file",
                     CASE facade = "FluidEngine" ->
                              transcribe_file(World, engines[e], wav_path, NoParams, env)
                       [] facade = "ParakeetEngine" ->
                              ParakeetEngine_transcribe_file(World, engines[e], wav_path, NoParams, env)
                       [] facade = "WhisperfileEngine" ->
                              WhisperfileEngine_transcribe_file(World, engines[e], wav_path,
                                                                NoParams, env),
                     [NoArgs EXCEPT !.facade = facade, !.wav_path = wav_path])

TranscribeSamples(e) ==
    /\ engines[e].alive
    /\ TEMP_WAV_COUNTER < MaxTemp
    /\ \E nsamples \in SampleCounts :
         LET probe == transcribe_samples(World, engines[e], nsamples, NoParams,
                                         NoTranscribeEnv)
         IN \E env \in IF probe.w.events = << >> THEN {NoTranscribeEnv}
                      ELSE SampleEnvs :
              Commit(e, "transcribe_samples",
                     transcribe_samples(World, engines[e], nsamples, NoParams, env),
                     NoArgs)

\* ------------------------------------------------------------ specification
NewEngine == [alive |-> TRUE, loaded_model_path |-> NoneStr, bridge |-> NoBridge]
\* The builds followed: the release build for macOS and for any other system.
Builds ==
    { [target_os |-> "macos", debug_assertions |-> FALSE],
      [target_os |-> "other", debug_assertions |-> FALSE] }
NoCall ==
    [op |-> "none", engine |-> "e1", pre |-> NewEngine, result |-> OkResult,
     events |-> << >>, args |-> NoArgs]

IdleBridge ==
    /\ handle = 0
    /\ lockHolder = "none"
    /\ pc = << >>
    /\ local = << >>
    /\ inflight = {}
    /\ dropPc = "gone"
Pending ==
    [ok |-> FALSE, kind |-> "pending", code |-> "", message |-> "", preview |-> NoPreview]
IdleParse ==
    /\ envelope = Malformed
    /\ parsed = Pending
\* resolve_bridge_dylib_path not in use
NoFs == [exists |-> {}, env_var |-> NoneStr, current_exe |-> FALSE]
PendingPath == [ok |-> FALSE, path |-> "", err |-> "pending"]
IdleResolve ==
    /\ resolveArgs = [explicit_path |-> NoneStr, fs |-> NoFs, debug_assertions |-> FALSE]
    /\ resolved = PendingPath
\* into_transcription_result not in use
NoPayload == [text |-> << >>, segments |-> << >>]
PendingResult == [done |-> FALSE, text |-> << >>, segments |-> NoSegments]
IdleAssemble ==
    /\ payload = NoPayload
    /\ assembled = PendingResult
\* read_wav_samples not in use
NoWavFile ==
    [opens |-> FALSE, spec |-> WavSpec(1, 16000, 16, "Int"), data |-> << >>,
     readable |-> TRUE]
PendingSamples == [done |-> FALSE, ok |-> FALSE, samples |-> << >>, err |-> NoAudioError]
IdleAudio ==
    /\ wav = NoWavFile
    /\ decoded = PendingSamples
\* normalize_vocabulary not in use
PendingVocabulary == [done |-> FALSE, out |-> << >>]
IdleVocabulary ==
    /\ vocabulary = << >>
    /\ normalized = PendingVocabulary
\* no single call followed
NoInvocation == [fn |-> "none"]
NotReturned == [done |-> FALSE]
IdleCall ==
    /\ invocation = NoInvocation
    /\ returned = NotReturned
\* unique_temp_wav_name not in use
IdleNames ==
    /\ namePc = << >>
    /\ nameLocal = << >>
    /\ names = << >>
IdlePure ==
    /\ IdleResolve
    /\ IdleAssemble
    /\ IdleAudio
    /\ IdleVocabulary
    /\ IdleCall
    /\ IdleNames
IdleEngines ==
    /\ engines = [e \in Engines |-> NewEngine]
    /\ libs = << >>
    /\ created = 0
    /\ destroyCalls = [h \in 0..MaxLoads |-> 0]
    /\ files = {}
    /\ TEMP_WAV_COUNTER = 0
    /\ last = NoCall

Init ==
    /\ build \in Builds
    /\ IdleEngines
    /\ IdleBridge
    /\ IdleParse
    /\ IdlePure

Next ==
    \E e \in Engines :
        \/ LoadModel(e)
        \/ UnloadModel(e)
        \/ DropEngine(e)
        \/ TranscribeFile(e)
        \/ TranscribeSamples(e)

Spec == Init /\ [][Next]_vars

\* --------------------------------------- parse_bridge_payload as a function
ParseResponse ==
    /\ parsed = Pending
    /\ parsed' = parse_bridge_payload(envelope)
    /\ UNCHANGED << envelope, engineVars, bridgeVars, pureVars >>

InitParse ==
    /\ build = [target_os |-> "macos", debug_assertions |-> FALSE]
    /\ IdleEngines
    /\ IdleBridge
    /\ envelope \in Envelopes
    /\ parsed = Pending
    /\ IdlePure

SpecParse == InitParse /\ [][ParseResponse]_vars

\* ------------------------------- concurrent callers of one FluidBridge
\* FluidBridge::transcribe takes &self and FluidBridge is Sync: the callers
\* below share one bridge.  Drop takes &mut self, so it starts only when no
\* caller is inside transcribe, and no caller starts after it.
Callers == {"t1", "t2", "t3"}

\* transcribe, up to active_handle: the request and the C string are built.
B_Begin(t) ==
    /\ dropPc = "alive"
    /\ pc[t] = "idle"
    /\ pc' = [pc EXCEPT ![t] = "active_handle"]
    /\ UNCHANGED << handle, lockHolder, local, inflight, dropPc, engineVars, parseVars, pureVars >>

\* active_handle: self.handle.lock()
B_Lock(t) ==
    /\ pc[t] = "active_handle"
    /\ lockHolder = "none"
    /\ lockHolder' = t
    /\ pc' = [pc EXCEPT ![t] = "locked"]
    /\ UNCHANGED << handle, local, inflight, dropPc, engineVars, parseVars, pureVars >>

\* active_handle: read the handle and return; the guard is dropped on return.
B_ReadHandle(t) ==
    /\ pc[t] = "locked"
    /\ lockHolder = t
    /\ lockHolder' = "none"
    /\ IF handle = 0
       THEN /\ pc' = [pc EXCEPT ![t] = "idle"]
            /\ UNCHANGED local
       ELSE /\ pc' = [pc EXCEPT ![t] = "call"]
            /\ local' = [local EXCEPT ![t] = handle]
    /\ UNCHANGED << handle, inflight, dropPc, engineVars, parseVars, pureVars >>

\* the foreign transcribe call is entered with the handle read before
B_CallTranscribe(t) ==
    /\ pc[t] = "call"
    /\ inflight' = inflight \cup
           {[caller |-> t, call |-> "glimpse_fluid_transcribe_wav", handle |-> local[t]]}
    /\ pc' = [pc EXCEPT ![t] = "in_foreign"]
    /\ UNCHANGED << handle, lockHolder, local, dropPc, engineVars, parseVars, pureVars >>

\* the foreign call returns
B_ReturnTranscribe(t) ==
    /\ pc[t] = "in_foreign"
    /\ inflight' = { c \in inflight : c.caller # t }
    /\ pc' = [pc EXCEPT ![t] = "take_buffer"]
    /\ local' = [local EXCEPT ![t] = 0]
    /\ UNCHANGED << handle, lockHolder, dropPc, engineVars, parseVars, pureVars >>

\* take_buffer, parse_bridge_payload and the result: none uses the handle
B_TakeBuffer(t) ==
    /\ pc[t] = "take_buffer"
    /\ pc' = [pc EXCEPT ![t] = "idle"]
    /\ UNCHANGED << handle, lockHolder, local, inflight, dropPc, engineVars, parseVars, pureVars >>

\* impl Drop for FluidBridge: self.handle.lock()
D_Lock ==
    /\ dropPc = "alive"
    /\ \A t \in Callers : pc[t] = "idle"
    /\ lockHolder = "none"
    /\ lockHolder' = "drop"
    /\ dropPc' = "locked"
    /\ UNCHANGED << handle, pc, local, inflight, engineVars, parseVars, pureVars >>

\* Drop: return if the handle is the sentinel, else enter foreign destroy
D_CallDestroy ==
    /\ dropPc = "locked"
    /\ IF handle = 0
       THEN /\ lockHolder' = "none"
            /\ dropPc' = "gone"
            /\ UNCHANGED inflight
       ELSE /\ inflight' = inflight \cup
                   {[caller |-> "drop", call |-> "glimpse_fluid_destroy", handle |-> handle]}
            /\ dropPc' = "in_destroy"
            /\ UNCHANGED lockHolder
    /\ UNCHANGED << handle, pc, local, engineVars, parseVars, pureVars >>

\* Drop: destroy returns, the sentinel is stored, the guard is dropped
D_ReturnDestroy ==
    /\ dropPc = "in_destroy"
    /\ inflight' = { c \in inflight : c.caller # "drop" }
    /\ handle' = 0
    /\ lockHolder' = "none"
    /\ dropPc' = "gone"
    /\ UNCHANGED << pc, local, engineVars, parseVars, pureVars >>

InitBridge ==
    /\ build = [target_os |-> "macos", debug_assertions |-> FALSE]
    /\ IdleEngines
    /\ IdleParse
    /\ IdlePure
    /\ handle = 1
    /\ lockHolder = "none"
    /\ pc = [t \in Callers |-> "idle"]
    /\ local = [t \in Callers |-> 0]
    /\ inflight = {}
    /\ dropPc = "alive"

NextBridge ==
    \/ \E t \in Callers :
        \/ B_Begin(t)
        \/ B_Lock(t)
        \/ B_ReadHandle(t)
        \/ B_CallTranscribe(t)
        \/ B_ReturnTranscribe(t)
        \/ B_TakeBuffer(t)
    \/ D_Lock
    \/ D_CallDestroy
    \/ D_ReturnDestroy

SpecBridge == InitBridge /\ [][NextBridge]_vars

\* ---------------------------------- resolve_bridge_dylib_path as a function
\* Every file system over the paths the resolver may look at: the explicit
\* path, the value of the override variable, and the candidates.
ResolvePaths ==
    {ExplicitDylib, EnvDylib}
    \cup { ExeCandidates[i] : i \in 1..Len(ExeCandidates) }
    \cup { DevCandidates[i] : i \in 1..Len(DevCandidates) }
ResolveFs ==
    [exists : SUBSET ResolvePaths, env_var : {NoneStr, Some(EnvDylib)},
     current_exe : BOOLEAN]

ResolvePath ==
    /\ resolved = PendingPath
    /\ resolved' = resolve_bridge_dylib_path(
                       resolveArgs.explicit_path, resolveArgs.fs,
                       resolveArgs.debug_assertions)
    /\ UNCHANGED << resolveArgs, payload, assembled, wav, decoded, vocabulary,
                    normalized, engineVars, bridgeVars, parseVars,
                    callVars, nameVars >>

InitResolve ==
    /\ build = [target_os |-> "macos", debug_assertions |-> FALSE]
    /\ IdleEngines
    /\ IdleBridge
    /\ IdleParse
    /\ resolveArgs \in [explicit_path : DylibParams, fs : ResolveFs,
                         debug_assertions : BOOLEAN]
    /\ resolved = PendingPath
    /\ IdleAssemble
    /\ IdleAudio
    /\ IdleVocabulary
    /\ IdleCall
    /\ IdleNames

SpecResolve == InitResolve /\ [][ResolvePath]_vars

\* ---------------------------------- into_transcription_result as a function
\* Texts: empty, blank, plain, and padded with whitespace on both sides.
TopTexts == { << >>, << " " >>, << "h", "i" >>, << " ", "h", "i", "\n" >> }
SegmentTexts == { << >>, << " ", "\t" >>, << "a" >>, << " ", "b", " " >> }
\* (start_ms, end_ms): end after start, end at start, end before start.
SegmentTimes == { << 0, 500 >>, << 500, 1000 >>, << 500, 500 >>, << 1000, 500 >> }
BridgeSegmentPayloads ==
    { [start_ms |-> t[1], end_ms |-> t[2], text |-> x] :
        t \in SegmentTimes, x \in SegmentTexts }
SeqsUpTo(S, n) == UNION { [1..k -> S] : k \in 0..n }
BridgeTranscriptPayloads ==
    [text : TopTexts, segments : SeqsUpTo(BridgeSegmentPayloads, MaxSegments)]

Assemble ==
    /\ ~assembled.done
    /\ assembled' = [done |-> TRUE,
                     text |-> into_transcription_result(payload).text,
                     segments |-> into_transcription_result(payload).segments]
    /\ UNCHANGED << payload, resolveArgs, resolved, wav, decoded, vocabulary,
                    normalized, engineVars, bridgeVars, parseVars,
                    callVars, nameVars >>

InitAssemble ==
    /\ build = [target_os |-> "macos", debug_assertions |-> FALSE]
    /\ IdleEngines
    /\ IdleBridge
    /\ IdleParse
    /\ IdleResolve
    /\ payload \in BridgeTranscriptPayloads
    /\ assembled = PendingResult
    /\ IdleAudio
    /\ IdleVocabulary
    /\ IdleCall
    /\ IdleNames

SpecAssemble == InitAssemble /\ [][Assemble]_vars

\* ------------------------------------------- read_wav_samples as a function
\* The headers tried: every field at the value the contract names and at
\* another one.
WavSpecs ==
    { WavSpec(c, r, b, f) :
        c \in {1, 2}, r \in {16000, 8000}, b \in {16, 8, 32}, f \in {"Int", "Float"} }
\* The 16-bit values tried: both ends of the range, zero and its neighbours.
SampleValues == {I16_MIN, -1000, 0, 250, I16_MAX}
WavFiles ==
    {NoWavFile}
    \cup [opens : {TRUE}, spec : WavSpecs, data : SeqsUpTo(SampleValues, MaxFrames),
          readable : BOOLEAN]

ReadWavSamples ==
    /\ ~decoded.done
    /\ decoded' = [done |-> TRUE, ok |-> read_wav_samples(wav).ok,
                   samples |-> read_wav_samples(wav).samples,
                   err |-> read_wav_samples(wav).err]
    /\ UNCHANGED << wav, resolveArgs, resolved, payload, assembled, vocabulary,
                    normalized, engineVars, bridgeVars, parseVars,
                    callVars, nameVars >>

InitAudio ==
    /\ build = [target_os |-> "macos", debug_assertions |-> FALSE]
    /\ IdleEngines
    /\ IdleBridge
    /\ IdleParse
    /\ IdleResolve
    /\ IdleAssemble
    /\ wav \in WavFiles
    /\ decoded = PendingSamples
    /\ IdleVocabulary
    /\ IdleCall
    /\ IdleNames

SpecAudio == InitAudio /\ [][ReadWavSamples]_vars

\* --------------------------------------- normalize_vocabulary as a function
\* Entries: a word, the word in lower case, padded, another word, entries
\* that are empty or blank, and a letter outside ASCII in both its cases (a
\* character outside ASCII is written as its code point: U+00C9 and U+00E9
\* are the capital and the small E with acute).
VocabularyEntries ==
    { << "F", "o", "o" >>, << "f", "o", "o" >>, << " ", "f", "o", "o", " " >>,
      << "B", "a", "r" >>, << >>, << " " >>, << "U+00C9" >>, << "U+00E9" >> }

NormalizeVocabulary ==
    /\ ~normalized.done
    /\ normalized' = [done |-> TRUE, out |-> normalize_vocabulary(vocabulary)]
    /\ UNCHANGED << vocabulary, resolveArgs, resolved, payload, assembled, wav,
                    decoded, engineVars, bridgeVars, parseVars,
                    callVars, nameVars >>

InitVocabulary ==
    /\ build = [target_os |-> "macos", debug_assertions |-> FALSE]
    /\ IdleEngines
    /\ IdleBridge
    /\ IdleParse
    /\ IdleResolve
    /\ IdleAssemble
    /\ IdleAudio
    /\ vocabulary \in SeqsUpTo(VocabularyEntries, MaxVocabulary)
    /\ normalized = PendingVocabulary
    /\ IdleCall
    /\ IdleNames

SpecVocabulary == InitVocabulary /\ [][NormalizeVocabulary]_vars

\* ------------------------------------ normalize_language_hint as a function
\* The inference parameters' language: absent, every string of at most MaxHint
\* of the characters below (a letter in each case, both separators, a space
\* and the capital E with acute), and some longer tags.
HintChars == {"E", "n", "-", "_", " ", "U+00C9"}
LanguageTags ==
    { << "e", "n", "-", "U", "S" >>, << "F", "R", "_", "c", "a" >>,
      << " ", "e", "n", " ", "-", "U", "S", " " >>, << "z", "h", "_", "H", "-", "x" >> }
LanguageHints ==
    {NoneText}
    \cup { Some(s) : s \in SeqsUpTo(HintChars, MaxHint) \cup LanguageTags }

NormalizeLanguageHint ==
    /\ invocation.fn = "normalize_language_hint"
    /\ ~returned.done
    /\ returned' = [done |-> TRUE, hint |-> normalize_language_hint(invocation.value)]
    /\ UNCHANGED << invocation, nameVars, resolveArgs, resolved, payload, assembled,
                    wav, decoded, vocabulary, normalized, engineVars, bridgeVars,
                    parseVars >>

\* Every function-level specification below starts from the idle engine.
IdleButCall ==
    /\ build = [target_os |-> "macos", debug_assertions |-> FALSE]
    /\ IdleEngines
    /\ IdleBridge
    /\ IdleParse
    /\ IdleResolve
    /\ IdleAssemble
    /\ IdleAudio
    /\ IdleVocabulary
    /\ IdleNames

InitLanguage ==
    /\ IdleButCall
    /\ invocation \in [fn : {"normalize_language_hint"}, value : LanguageHints]
    /\ returned = NotReturned

SpecLanguage == InitLanguage /\ [][NormalizeLanguageHint]_vars

\* ------------------------------------------- one call through a facade
\* Model paths: a directory, and a file in it.
FacadeModelPaths ==
    { [dir |-> "models/a", file |-> NoneStr],
      [dir |-> "models/a", file |-> Some("ggml.bin")] }
DiarizationDirs == {NoneStr, Some("models/diarization")}
ParakeetModelParams ==
    [quantization : {"FP32", "Int8"}, diarization_model_dir : DiarizationDirs,
     dylib_path : {Some(ExplicitDylib)}, runtime_macos_major : OptMajors]
WhisperfileModelParams ==
    [port : {8080, 9000}, host : {"127.0.0.1", "0.0.0.0"},
     startup_timeout_secs : {30, 5}, gpu : {"Auto", "Disabled"},
     diarization_model_dir : DiarizationDirs,
     dylib_path : {Some(ExplicitDylib)}, runtime_macos_major : OptMajors]
\* The dylib is at the explicit path and exports every symbol; create returns
\* a handle or null.
FacadeLoadEnvs ==
    { LoadEnv(TRUE, Some(MIN_MACOS_MAJOR), b) :
        b \in { c \in BridgeEnvs : /\ c.dylib_path = Some(ExplicitDylib)
                                   /\ ExplicitDylib \in c.fs.exists
                                   /\ c.lib.dlopen_ok
                                   /\ c.lib.symbols = Symbols } }
FacadeLanguages == {NoneText, Some(<< "e", "n", "-", "U", "S" >>)}
FacadeVocabularies == { << >>, << << "F", "o", "o" >>, << "f", "o", "o" >> >> }
ParakeetInferenceParams ==
    [timestamp_granularity : {"Token", "Word", "Segment"},
     language : FacadeLanguages, vocabulary : FacadeVocabularies]
WhisperfileInferenceParams ==
    [language : FacadeLanguages, translate : BOOLEAN,
     temperature : {NoneInt, Some(2)},
     response_format : {NoneStr, Some("verbose_json"), Some("text")},
     vocabulary : FacadeVocabularies]
Optional(S) == {NoParams} \cup { Some(x) : x \in S }
FacadeInvocations ==
    [fn : {"load_model_with_params"}, facade : {"ParakeetEngine"},
     model_path : FacadeModelPaths, params : ParakeetModelParams, env : FacadeLoadEnvs]
    \cup [fn : {"load_model_with_params"}, facade : {"WhisperfileEngine"},
          model_path : FacadeModelPaths, params : WhisperfileModelParams,
          env : FacadeLoadEnvs]
    \cup [fn : {"transcribe_file"}, facade : {"ParakeetEngine"},
          params : Optional(ParakeetInferenceParams)]
    \cup [fn : {"transcribe_file"}, facade : {"WhisperfileEngine"},
          params : Optional(WhisperfileInferenceParams)]

\* transcribe_file is followed on an engine that holds a session, with a file
\* that meets the PCM contract and a response that holds a transcript.
LoadedEngine ==
    [alive |-> TRUE, loaded_model_path |-> Some("models/a"), bridge |-> Bridge(1, 1)]
LoadedWorld ==
    [World EXCEPT !.libs = << [path |-> ExplicitDylib, open |-> TRUE] >>, !.created = 1]
FacadeWavPath ==
    [exists |-> TRUE, has_nul |-> FALSE, spec |-> WavSpec(1, 16000, 16, "Int")]
FacadeTranscribeEnv ==
    CHOOSE env \in TranscribeEnvs :
        /\ env.out_ptr = 1
        /\ env.out_len = 1
        /\ parse_bridge_payload(env.response).ok

\* The call of inv, on a new engine (load) or on a loaded one (transcribe).
FacadeCall(inv) ==
    CASE inv.fn = "load_model_with_params" /\ inv.facade = "ParakeetEngine" ->
             ParakeetEngine_load_model_with_params(
                 World, NewEngine, inv.model_path, inv.params, inv.env, build)
      [] inv.fn = "load_model_with_params" /\ inv.facade = "WhisperfileEngine" ->
             WhisperfileEngine_load_model_with_params(
                 World, NewEngine, inv.model_path, inv.params, inv.env, build)
      [] inv.fn = "transcribe_file" /\ inv.facade = "ParakeetEngine" ->
             ParakeetEngine_transcribe_file(
                 LoadedWorld, LoadedEngine, FacadeWavPath, inv.params, FacadeTranscribeEnv)
      [] inv.fn = "transcribe_file" /\ inv.facade = "WhisperfileEngine" ->
             WhisperfileEngine_transcribe_file(
                 LoadedWorld, LoadedEngine, FacadeWavPath, inv.params, FacadeTranscribeEnv)
MapInferenceParams(inv) ==
    IF inv.facade = "ParakeetEngine" THEN parakeet_map_inference_params(inv.params)
    ELSE whisperfile_map_inference_params(inv.params)

FacadeLoadModel ==
    /\ invocation.fn = "load_model_with_params"
    /\ ~returned.done
    /\ returned' = [done |-> TRUE, result |-> FacadeCall(invocation).result,
                    events |-> FacadeCall(invocation).w.events]
    /\ UNCHANGED << invocation, nameVars, resolveArgs, resolved, payload, assembled,
                    wav, decoded, vocabulary, normalized, engineVars, bridgeVars,
                    parseVars >>

FacadeTranscribeFile ==
    /\ invocation.fn = "transcribe_file"
    /\ ~returned.done
    /\ returned' = [done |-> TRUE, result |-> FacadeCall(invocation).result,
                    events |-> FacadeCall(invocation).w.events,
                    mapped |-> MapInferenceParams(invocation)]
    /\ UNCHANGED << invocation, nameVars, resolveArgs, resolved, payload, assembled,
                    wav, decoded, vocabulary, normalized, engineVars, bridgeVars,
                    parseVars >>

InitFacade ==
    /\ IdleButCall
    /\ invocation \in FacadeInvocations
    /\ returned = NotReturned

SpecFacade == InitFacade /\ [][FacadeLoadModel \/ FacadeTranscribeFile]_vars

\* ------------------------------------------- FluidBridge::new on its own
\* Every set of symbols a dylib may export, with every file system followed.
BridgeNewEnvs ==
    [fs : FsScenarios, dlopen_ok : BOOLEAN, symbols : SUBSET Symbols,
     create_null : BOOLEAN]

BridgeNew ==
    /\ invocation.fn = "FluidBridge::new"
    /\ ~returned.done
    /\ LET n == FluidBridge_new(World, invocation.asr_model_dir, NoneStr,
                                MIN_MACOS_MAJOR, invocation.explicit_dylib_path,
                                invocation.env, build.debug_assertions)
           l == FluidBridgeLibrary_load(World, invocation.explicit_dylib_path,
                                        invocation.env, build.debug_assertions)
       IN returned' = [done |-> TRUE, ok |-> n.ok, err |-> n.err,
                       events |-> n.w.events, bridge |-> n.bridge, table |-> l.table]
    /\ UNCHANGED << invocation, nameVars, resolveArgs, resolved, payload, assembled,
                    wav, decoded, vocabulary, normalized, engineVars, bridgeVars,
                    parseVars >>

InitBridgeNew ==
    /\ IdleButCall
    /\ invocation \in [fn : {"FluidBridge::new"}, asr_model_dir : {"models/a"},
                        explicit_dylib_path : DylibParams, env : BridgeNewEnvs]
    /\ returned = NotReturned

SpecBridgeNew == InitBridgeNew /\ [][BridgeNew]_vars

\* ------------------------------------- FluidBridge::transcribe on its own
\* A session (of the first load, or of a reload) is handed a path as the
\* caller wrote it: a path with an interior NUL names no file.
SessionWorld(b) ==
    [World EXCEPT !.libs = << [path |-> ExplicitDylib, open |-> TRUE] >>,
                  !.created = b.handle]
BridgeWavPaths ==
    { p \in [exists : BOOLEAN, has_nul : BOOLEAN] : ~(p.exists /\ p.has_nul) }
BridgeInferenceParams ==
    { FluidInferenceParams_default,
      [language |-> Some(<< "e", "n", "-", "U", "S" >>),
       vocabulary |-> << << "F", "o", "o" >> >>,
       timestamp_granularity |-> "SegmentsOnly"] }

BridgeTranscribe ==
    /\ invocation.fn = "FluidBridge::transcribe"
    /\ ~returned.done
    /\ LET t == FluidBridge_transcribe(SessionWorld(invocation.bridge), invocation.bridge,
                                       invocation.wav_path, invocation.params,
                                       invocation.env)
       IN returned' = [done |-> TRUE, result |-> t.result, world |-> t.w]
    /\ UNCHANGED << invocation, nameVars, resolveArgs, resolved, payload, assembled,
                    wav, decoded, vocabulary, normalized, engineVars, bridgeVars,
                    parseVars >>

InitBridgeTranscribe ==
    /\ IdleButCall
    /\ invocation \in [fn : {"FluidBridge::transcribe"},
                        bridge : {Bridge(1, 1), Bridge(1, 2)},
                        wav_path : BridgeWavPaths, params : BridgeInferenceParams,
                        env : TranscribeEnvs]
    /\ returned = NotReturned

SpecBridgeTranscribe == InitBridgeTranscribe /\ [][BridgeTranscribe]_vars

\* ------------------------------ unique_temp_wav_name, callers in parallel
\* Threads of one process call unique_temp_wav_name; each statement of the
\* function is a step.  The clock may give any value to any caller: the same
\* value twice, or 0 when it cannot be read.
NameCallers == {"t1", "t2"}
NameClock == {0, 10}

NameFrame ==
    UNCHANGED << build, engines, libs, created, destroyCalls, files, last, bridgeVars,
                 parseVars, resolveArgs, resolved, payload, assembled, wav, decoded,
                 vocabulary, normalized, callVars >>

NameFetchAdd(t) ==
    /\ namePc[t] = "fetch_add"
    /\ TEMP_WAV_COUNTER < MaxNames
    /\ LET f == fetch_add(TEMP_WAV_COUNTER, 1)
       IN /\ TEMP_WAV_COUNTER' = f.stored
          /\ nameLocal' = [nameLocal EXCEPT ![t].counter = f.previous]
    /\ namePc' = [namePc EXCEPT ![t] = "now"]
    /\ UNCHANGED names
    /\ NameFrame

NameNow(t) ==
    /\ namePc[t] = "now"
    /\ \E nanos \in NameClock :
          nameLocal' = [nameLocal EXCEPT ![t].nanos = nanos]
    /\ namePc' = [namePc EXCEPT ![t] = "format"]
    /\ UNCHANGED << TEMP_WAV_COUNTER, names >>
    /\ NameFrame

NameFormat(t) ==
    /\ namePc[t] = "format"
    /\ names' = Append(names, format_temp_wav_name(nameLocal[t].nanos,
                                                    nameLocal[t].counter))
    /\ namePc' = [namePc EXCEPT ![t] = "fetch_add"]
    /\ UNCHANGED << TEMP_WAV_COUNTER, nameLocal >>
    /\ NameFrame

InitNames ==
    /\ build = [target_os |-> "macos", debug_assertions |-> FALSE]
    /\ IdleEngines
    /\ IdleBridge
    /\ IdleParse
    /\ IdleResolve
    /\ IdleAssemble
    /\ IdleAudio
    /\ IdleVocabulary
    /\ IdleCall
    /\ namePc = [t \in NameCallers |-> "fetch_add"]
    /\ nameLocal = [t \in NameCallers |-> [counter |-> 0, nanos |-> 0]]
    /\ names = << >>

NextNames ==
    \E t \in NameCallers : NameFetchAdd(t) \/ NameNow(t) \/ NameFormat(t)

SpecNames == InitNames /\ [][NextNames]_vars

\* ================================================================== claims
EventsOf(calls) ==
    { i \in 1..Len(last.events) : last.events[i].call \in calls }
Owned(h) ==
    \E e \in Engines :
        /\ engines[e].alive
        /\ engines[e].bridge.present
        /\ engines[e].bridge.handle = h
EffectiveMajor ==
    IF last.args.runtime_macos_major.some
    THEN last.args.runtime_macos_major ELSE last.args.detected

\* C1: foreign destroy is invoked exactly once for every handle create
\* returned non-null, by the time its engine is unloaded, dropped or given
\* another session (never while the engine still holds it), never for the
\* sentinel 0 and never twice; unload_model or the teardown of an engine
\* that holds no session issues no foreign call.
C1_DestroyExactlyOnce ==
    /\ destroyCalls[0] = 0
    /\ \A h \in 1..MaxLoads :
         /\ destroyCalls[h] <= 1
         /\ h > created => destroyCalls[h] = 0
         /\ h <= created => (destroyCalls[h] = 1 <=> ~Owned(h))
    /\ \A i \in EventsOf({"glimpse_fluid_destroy"}) : last.events[i].handle # 0
    /\ (last.op \in {"unload_model", "drop"} /\ ~last.pre.bridge.present)
         => last.events = << >>

\* C1 witness: two handles were created, each was destroyed once, and the
\* engine is dropped after it was unloaded, with no call.
C1_Witness ==
    /\ last.op = "drop"
    /\ ~last.pre.bridge.present
    /\ last.events = << >>
    /\ created = 2
    /\ destroyCalls[1] = 1
    /\ destroyCalls[2] = 1

\* C2 (as claimed): every non-null pointer foreign transcribe returns,
\* whatever length it reports, is passed to free_buffer exactly once before
\* transcribe returns, and free_buffer is never called for a null pointer.
C2_EveryBufferFreedOnce ==
    /\ \A i \in EventsOf({"glimpse_fluid_transcribe_wav"}) :
         Cardinality(EventsOf({"glimpse_fluid_free_buffer"})) =
             (IF last.events[i].ptr # 0 THEN 1 ELSE 0)
    /\ \A i \in EventsOf({"glimpse_fluid_free_buffer"}) : last.events[i].ptr # 0

\* C4 (as claimed): after transcribe_samples returns, no temporary WAV file
\* created by the call is on disk.
C4_NoTempFileAfterReturn ==
    last.op = "transcribe_samples" =>
        \A i \in EventsOf({"WavWriter::create"}) : last.events[i].file \notin files

\* C5 (as claimed): a library is never loaded from a path while a library
\* loaded from that path is still open.
C5_LibraryLoadedOncePerPath ==
    \A i \in EventsOf({"Library::new"}) : ~last.events[i].again

\* C8: transcribe_file and transcribe_samples on an engine that holds no
\* session return 'Model not loaded', issue no foreign call and create no
\* temporary file.
C8_NotLoadedIsStateError ==
    (last.op \in {"transcribe_file", "transcribe_samples"} /\ ~last.pre.bridge.present)
        => /\ last.result = Err("Model not loaded")
           /\ last.events = << >>
           /\ engines[last.engine] = last.pre

\* C8 witness: transcribe_samples on an engine that was loaded and unloaded.
C8_Witness ==
    /\ last.op = "transcribe_samples"
    /\ ~last.pre.bridge.present
    /\ created >= 1
    /\ last.result = Err("Model not loaded")

\* C9: when foreign create returns null, the load returns an error, the
\* engine is left as it was (no session comes into existence), and no
\* foreign transcribe or destroy call is ever issued with the null handle.
C9_NullHandleIsNoSession ==
    /\ \A i \in EventsOf({"glimpse_fluid_destroy", "glimpse_fluid_transcribe_wav"}) :
         last.events[i].handle # 0
    /\ destroyCalls[0] = 0
    /\ \A e \in Engines : engines[e].bridge.present => engines[e].bridge.handle # 0
    /\ \A i \in EventsOf({"glimpse_fluid_create"}) :
         last.events[i].handle = 0
           => /\ last.result = Err("Fluid bridge failed to initialize")
              /\ engines[last.engine] = last.pre

\* C9 witness: create returned null in a load on an engine that holds a session.
C9_Witness ==
    /\ last.op = "load_model_with_params"
    /\ last.pre.bridge.present
    /\ \E i \in EventsOf({"glimpse_fluid_create"}) : last.events[i].handle = 0

\* C10: load_model_with_params with a macOS major below 14 (the explicit one,
\* or the detected one when none is given), or with none to be had, fails
\* before the dylib path is resolved, the library loaded or create called.
C10_PlatformGateFirst ==
    (last.op = "load_model_with_params"
       /\ (~EffectiveMajor.some \/ EffectiveMajor.v < 14))
        => /\ ~last.result.ok
           /\ last.events = << >>
           /\ engines[last.engine] = last.pre

\* C10 witness: an explicit macOS 13 on a machine where macOS 14 is detected
\* and the model directory exists.
C10_Witness ==
    /\ last.op = "load_model_with_params"
    /\ build.target_os = "macos"
    /\ last.args.model_exists
    /\ last.args.runtime_macos_major = Some(13)
    /\ last.args.detected = Some(14)
    /\ last.result = Err("requires macOS 14+")

\* C12: every foreign transcribe or destroy call a step issues uses a handle
\* that create had returned non-null before the step and that had not been
\* passed to destroy before the step: once a handle is destroyed no later
\* call uses it.
C12_HandleLiveWhenUsed ==
    [][\A i \in 1..Len(last'.events) :
          last'.events[i].call \in {"glimpse_fluid_transcribe_wav", "glimpse_fluid_destroy"}
            => /\ last'.events[i].handle \in 1..created
               /\ destroyCalls[last'.events[i].handle] = 0]_vars

\* C12 witness: a transcribe call on the second handle, after the first was
\* destroyed.
C12_Witness ==
    /\ last.op \in {"transcribe_file", "transcribe_samples"}
    /\ \E i \in EventsOf({"glimpse_fluid_transcribe_wav"}) : last.events[i].handle = 2
    /\ destroyCalls[1] = 1
    /\ destroyCalls[2] = 0

\* C24: the library of a session the engine holds is open and the session's
\* handle is not destroyed; in every call that closes the library of a
\* session (unload_model, the engine's drop, a load that replaces it) foreign
\* destroy of the session's handle came first; and a library closed in a load
\* that failed had given no handle.
C24_LibraryOutlivesHandle ==
    /\ \A e \in Engines :
          engines[e].bridge.present
            => /\ libs[engines[e].bridge.library].open
               /\ destroyCalls[engines[e].bridge.handle] = 0
    /\ \A i \in EventsOf({"Library::drop"}) :
          IF last.pre.bridge.present /\ last.events[i].lib = last.pre.bridge.library
          THEN \E j \in 1..(i - 1) :
                  /\ last.events[j].call = "glimpse_fluid_destroy"
                  /\ last.events[j].handle = last.pre.bridge.handle
          ELSE \A j \in EventsOf({"glimpse_fluid_create"}) :
                  last.events[j].lib = last.events[i].lib => last.events[j].handle = 0

\* C24 witness: a load that replaced a session: the new library is open, the
\* old handle was destroyed and then the old library closed.
C24_Witness ==
    /\ last.op = "load_model_with_params"
    /\ last.result.ok
    /\ last.pre.bridge.present
    /\ \E i \in EventsOf({"Library::drop"}) : last.events[i].lib = last.pre.bridge.library
    /\ ~libs[last.pre.bridge.library].open
    /\ libs[engines[last.engine].bridge.library].open

\* C26: a load_model_with_params that fails, at whatever step, leaves the
\* engine as it was and destroys no handle: a session held before is still
\* held, its handle not destroyed and its library open, and an engine without
\* a session stays without one.
C26_FailedLoadChangesNothing ==
    (last.op = "load_model_with_params" /\ ~last.result.ok)
        => /\ engines[last.engine] = last.pre
           /\ EventsOf({"glimpse_fluid_destroy"}) = {}
           /\ last.pre.bridge.present
                 => /\ destroyCalls[last.pre.bridge.handle] = 0
                    /\ libs[last.pre.bridge.library].open

\* C26 witness: on an engine that holds a session, a load from a dylib that
\* lacks a symbol.
C26_Witness ==
    /\ last.op = "load_model_with_params"
    /\ last.pre.bridge.present
    /\ last.result = Err("missing Fluid bridge symbol glimpse_fluid_destroy")
    /\ engines[last.engine].bridge.handle = 1

\* C27: a successful load on an engine that holds a session creates the new
\* handle, then destroys the old one, once, and leaves the engine with the
\* new handle; every foreign transcribe uses the handle the engine holds; an
\* engine never holds a session with handle 0; and the model path is stored
\* exactly when a session is held.
C27_ReplacementCreatesThenDestroys ==
    /\ \A e \in Engines :
          /\ engines[e].bridge.present => engines[e].bridge.handle # 0
          /\ engines[e].loaded_model_path.some <=> engines[e].bridge.present
    /\ (last.op = "load_model_with_params" /\ last.result.ok /\ last.pre.bridge.present)
          => /\ engines[last.engine].bridge.handle # last.pre.bridge.handle
             /\ Cardinality(EventsOf({"glimpse_fluid_destroy"})) = 1
             /\ destroyCalls[last.pre.bridge.handle] = 1
             /\ destroyCalls[engines[last.engine].bridge.handle] = 0
             /\ \E i \in EventsOf({"glimpse_fluid_create"}) :
                   /\ last.events[i].handle = engines[last.engine].bridge.handle
                   /\ \A j \in EventsOf({"glimpse_fluid_destroy"}) :
                         /\ i < j
                         /\ last.events[j].handle = last.pre.bridge.handle
    /\ \A i \in EventsOf({"glimpse_fluid_transcribe_wav"}) :
          /\ engines[last.engine].bridge.present
          /\ last.events[i].handle = engines[last.engine].bridge.handle

\* C27 witness: the second load of an engine succeeded: handle 2 was created
\* and handle 1 destroyed after it.
C27_Witness ==
    /\ last.op = "load_model_with_params"
    /\ last.result.ok
    /\ last.pre.bridge.handle = 1
    /\ engines[last.engine].bridge.handle = 2
    /\ engines[last.engine].loaded_model_path.some
    /\ destroyCalls[1] = 1

\* --------------------------------------------------------- under SpecBridge
\* C3 (as claimed): at most one foreign call that uses the session's handle
\* is in flight at any time.
C3_OneForeignCallPerHandle ==
    \A c, d \in inflight : c.handle = d.handle => c = d

\* ---------------------------------------------------------- under SpecParse
\* C6: parse_bridge_payload fails with a schema mismatch for every envelope
\* whose schema_version is not 1, whatever ok, data and error are.
C6_VersionMismatchFails ==
    (parsed # Pending /\ envelope.decodes
       /\ envelope.schema_version # BRIDGE_SCHEMA_VERSION)
        => parsed = Err("schema mismatch")

\* C6 witness: version 2, ok, with a well-formed transcript.
C6_Witness ==
    /\ parsed # Pending
    /\ envelope.decodes
    /\ envelope.schema_version = 2
    /\ envelope.ok
    /\ envelope.data = "transcript"

\* C7: with the version matching, a payload is returned exactly when ok is
\* true and data is present and has the transcript's shape; ok false gives
\* "{code}: {message}" or 'failed without error payload', also when data is
\* present; ok true without data gives 'succeeded without payload'.
C7_OkDataDecideResult ==
    (parsed # Pending /\ envelope.decodes
       /\ envelope.schema_version = BRIDGE_SCHEMA_VERSION)
        => /\ parsed.ok <=> (envelope.ok /\ envelope.data = "transcript")
           /\ ~envelope.ok =>
                parsed = (IF envelope.error.kind = "object"
                          THEN NativeError(envelope.error.code, envelope.error.message)
                          ELSE Err("failed without error payload"))
           /\ (envelope.ok /\ envelope.data \in {"absent", "null"}) =>
                parsed = Err("succeeded without payload")

\* C7 witness: ok false with an error payload and a data payload as well.
C7_Witness ==
    /\ parsed # Pending
    /\ envelope.decodes
    /\ envelope.schema_version = BRIDGE_SCHEMA_VERSION
    /\ ~envelope.ok
    /\ envelope.data = "transcript"
    /\ envelope.error.kind = "object"
    /\ parsed.kind = "NativeError"

\* -------------------------------------------------------- under SpecResolve
ResolvedOk(path) == [ok |-> TRUE, path |-> path, err |-> ""]
ExistingOf(candidates) ==
    { i \in 1..Len(candidates) : candidates[i] \in resolveArgs.fs.exists }
\* The result a priority list of candidates calls for, once the explicit
\* path and the override variable have been looked at.
ByPriority(candidates) ==
    /\ (resolveArgs.explicit_path.some /\ resolveArgs.explicit_path.v \in resolveArgs.fs.exists)
         => resolved = ResolvedOk(resolveArgs.explicit_path.v)
    /\ (resolveArgs.explicit_path.some /\ resolveArgs.explicit_path.v \notin resolveArgs.fs.exists)
         => ~resolved.ok
    /\ (~resolveArgs.explicit_path.some /\ resolveArgs.fs.env_var.some
          /\ resolveArgs.fs.env_var.v \in resolveArgs.fs.exists)
         => resolved = ResolvedOk(resolveArgs.fs.env_var.v)
    /\ (~resolveArgs.explicit_path.some
          /\ ~(resolveArgs.fs.env_var.some /\ resolveArgs.fs.env_var.v \in resolveArgs.fs.exists))
         => /\ \A i \in ExistingOf(candidates) :
                  (\A j \in ExistingOf(candidates) : i <= j)
                      => resolved = ResolvedOk(candidates[i])
            /\ ExistingOf(candidates) = {} => ~resolved.ok

\* C11 (as claimed): the explicit path if given and existing; an error if it
\* is given and missing; otherwise the override variable's path if set and
\* existing; otherwise the first existing candidate in the order same
\* directory, Frameworks, Resources; otherwise an error.
C11_ResolverPriority ==
    resolved # PendingPath => ByPriority(ExeCandidates)

\* C11 (amended): as claimed, but the candidates relative to the executable
\* are looked at only when current_exe() and its parent are known, and a
\* debug build goes on to the six development build directories, in their
\* order, before it fails.
C11_ResolverPriorityByBuild ==
    resolved # PendingPath =>
        ByPriority((IF resolveArgs.fs.current_exe THEN ExeCandidates ELSE << >>)
                   \o (IF resolveArgs.debug_assertions THEN DevCandidates ELSE << >>))

\* C11 witness: no explicit path, the override variable names a missing file,
\* Frameworks and Resources exist and the same directory does not.
C11_Witness ==
    /\ resolved = ResolvedOk("exe/../Frameworks")
    /\ ~resolveArgs.explicit_path.some
    /\ resolveArgs.fs.env_var = Some(EnvDylib)
    /\ resolveArgs.fs.current_exe
    /\ resolveArgs.fs.exists = {ExplicitDylib, "exe/../Frameworks", "exe/../Resources"}

\* ------------------------------------------------------- under SpecAssemble
\* The payload segments the filter keeps: end after start, text not blank.
Survives(segment) ==
    /\ segment.end_ms > segment.start_ms
    /\ \E i \in 1..Len(segment.text) : ~IsWhitespace(segment.text[i])
Survivors == SelectSeq(payload.segments, Survives)
ResultSegments == IF assembled.segments.some THEN assembled.segments.v ELSE << >>

\* C13: the segments field of the result is present if and only if at least
\* one payload segment survives the filter, and is never present and empty.
C13_SegmentsPresentIffSurvivor ==
    assembled.done =>
        /\ assembled.segments.some <=> (\E i \in 1..Len(payload.segments) :
                                            Survives(payload.segments[i]))
        /\ assembled.segments.some => Len(assembled.segments.v) >= 1

\* C13 witness: a payload of two segments, none of which survives, and a
\* top-level text.
C13_Witness ==
    /\ assembled.done
    /\ Len(payload.segments) = 2
    /\ payload.text = << "h", "i" >>
    /\ ~assembled.segments.some

\* C14 (as claimed): every segment of the result has a text that is not
\* empty and has no whitespace at its start or at its end.
C14_SegmentTextTrimmed ==
    assembled.done =>
        \A i \in 1..Len(ResultSegments) :
            LET text == ResultSegments[i].text
            IN /\ text # << >>
               /\ ~IsWhitespace(text[1])
               /\ ~IsWhitespace(text[Len(text)])

\* C15: the segments of the result are the payload segments whose end_ms is
\* after start_ms and whose text is not blank, all of them and no other, in
\* their order, each with start = start_ms/1000 and end = end_ms/1000.
C15_SegmentsAreSurvivorsInOrder ==
    assembled.done =>
        /\ Len(ResultSegments) = Len(Survivors)
        /\ \A i \in 1..Len(ResultSegments) :
              /\ ResultSegments[i].start = [ms |-> Survivors[i].start_ms, per |-> 1000]
              /\ ResultSegments[i].end = [ms |-> Survivors[i].end_ms, per |-> 1000]
              /\ trim(ResultSegments[i].text) = trim(Survivors[i].text)

\* C15 witness: a segment whose end is its start is dropped, the padded one
\* after it is kept.
C15_Witness ==
    /\ assembled.done
    /\ Len(payload.segments) = MaxSegments
    /\ Len(Survivors) = 1
    /\ payload.segments[1].end_ms = payload.segments[1].start_ms
    /\ payload.segments[1].text = << "a" >>
    /\ payload.segments[2] = [start_ms |-> 500, end_ms |-> 1000, text |-> << " ", "b", " " >>]
    /\ Len(ResultSegments) = 1

JoinedSurvivorTexts ==
    join([i \in 1..Len(Survivors) |-> trim(Survivors[i].text)], << "\n" >>)

\* C16 (as claimed): if the top-level text is empty, the text of the result
\* is the trimmed texts of the surviving segments joined with a newline;
\* otherwise it is the top-level text trimmed, whatever the segments are.
C16_TextJoinedIffTopEmpty ==
    assembled.done =>
        /\ payload.text = << >> => assembled.text = JoinedSurvivorTexts
        /\ payload.text # << >> => assembled.text = trim(payload.text)

\* C16 (amended): as claimed, with 'empty' read as 'empty after trimming': a
\* top-level text of whitespace only is replaced by the joined texts too.
C16_TextJoinedIffTopBlank ==
    assembled.done =>
        /\ (\A i \in 1..Len(payload.text) : IsWhitespace(payload.text[i]))
             => /\ assembled.text = JoinedSurvivorTexts
                /\ Survivors = << >> => (assembled.text = << >> /\ ~assembled.segments.some)
        /\ (\E i \in 1..Len(payload.text) : ~IsWhitespace(payload.text[i]))
             => assembled.text = trim(payload.text)

\* C16 witness: a top-level text of one space and two surviving segments.
C16_Witness ==
    /\ assembled.done
    /\ payload.text = << " " >>
    /\ Len(Survivors) = 2
    /\ assembled.text = << "b", "\n", "a" >>

\* ---------------------------------------------------------- under SpecAudio
PcmContract(spec) ==
    /\ spec.channels = 1
    /\ spec.sample_rate = 16000
    /\ spec.bits_per_sample = 16
    /\ spec.sample_format = "Int"
\* The checks in their order: whether the field is off, and the error due.
SpecChecks(spec) ==
    << [off |-> spec.channels # 1,
        err |-> AudioError("Expected 1 channel", spec.channels)],
       [off |-> spec.sample_rate # 16000,
        err |-> AudioError("Expected 16000 Hz sample rate", spec.sample_rate)],
       [off |-> spec.bits_per_sample # 16,
        err |-> AudioError("Expected 16 bits per sample", spec.bits_per_sample)],
       [off |-> spec.sample_format # "Int",
        err |-> AudioFormatError("Expected Int sample format", spec.sample_format)] >>
NamesFirstViolation(spec, err) ==
    \E i \in 1..4 :
        /\ SpecChecks(spec)[i].off
        /\ \A j \in 1..(i - 1) : ~SpecChecks(spec)[j].off
        /\ err = SpecChecks(spec)[i].err

\* C18 (as claimed): for a file with a WAV header, read_wav_samples returns
\* samples if and only if the spec is exactly 1 channel, 16000 Hz, 16 bits,
\* integer; for every other spec it returns an error and no samples, the
\* error naming the first field off, in the order channels, sample rate,
\* bits per sample, sample format, with the value found.
C18_SamplesIffExactSpec ==
    (decoded.done /\ wav.opens) =>
        /\ decoded.ok <=> PcmContract(wav.spec)
        /\ ~PcmContract(wav.spec) =>
              /\ decoded.samples = << >>
              /\ NamesFirstViolation(wav.spec, decoded.err)

\* C18 (amended): as claimed, but samples are returned only if, besides the
\* spec being exact, every frame of the data can be read.
C18_SamplesIffExactSpecAndReadable ==
    (decoded.done /\ wav.opens) =>
        /\ decoded.ok <=> (PcmContract(wav.spec) /\ wav.readable)
        /\ ~decoded.ok => decoded.samples = << >>
        /\ ~PcmContract(wav.spec) => NamesFirstViolation(wav.spec, decoded.err)

\* C18 witness: two channels at 8000 Hz and 8 bits: the error names the
\* channels and the 2 found.
C18_Witness ==
    /\ decoded.done
    /\ wav.opens
    /\ wav.spec = WavSpec(2, 8000, 8, "Int")
    /\ wav.readable
    /\ Len(wav.data) = MaxFrames
    /\ decoded.err = AudioError("Expected 1 channel", 2)

\* C19 (as claimed): a valid WAV of N frames decodes to N values in frame
\* order, each the sample s divided by 32767, within [-1, 1] and with the
\* sign of s, for every s from -32768 to 32767.
C19_DecodedInUnitRange ==
    (decoded.done /\ decoded.ok) =>
        /\ Len(decoded.samples) = Len(wav.data)
        /\ \A i \in 1..Len(decoded.samples) :
              LET v == decoded.samples[i]
              IN /\ v.num = wav.data[i]
                 /\ v.den = 32767
                 /\ -v.den <= v.num
                 /\ v.num <= v.den

\* ---------------------------------------------------------------- under Spec
\* C17 (as claimed): through the bridge engine and through either facade,
\* transcribe_file on an existing WAV file that does not meet the PCM
\* contract returns an error and issues no foreign transcribe call.
C17_InvalidAudioNeverReachesBackend ==
    (last.op = "transcribe_file" /\ last.args.wav_path.exists
       /\ ~PcmContract(last.args.wav_path.spec))
        => /\ ~last.result.ok
           /\ EventsOf({"glimpse_fluid_transcribe_wav"}) = {}

\* ----------------------------------------------------- under SpecVocabulary
NonBlank(s) == \E i \in 1..Len(s) : ~IsWhitespace(s[i])
\* Two strings are equal ignoring case when their lower-case forms are equal,
\* letter by letter, for the letters of ASCII and the others alike.
LowerCaseOf(c) == IF c = "U+00C9" THEN "U+00E9" ELSE to_ascii_lowercase(<< c >>)[1]
SameIgnoringCase(s, t) ==
    [i \in 1..Len(s) |-> LowerCaseOf(s[i])] = [i \in 1..Len(t) |-> LowerCaseOf(t[i])]
\* The entries that are not blank and are the first of their value, case
\* ignored; and the k-th of them.
FirstOccurrences ==
    { i \in 1..Len(vocabulary) :
        /\ NonBlank(vocabulary[i])
        /\ \A j \in 1..(i - 1) :
              ~SameIgnoringCase(trim(vocabulary[j]), trim(vocabulary[i])) }
NthFirstOccurrence(k) ==
    CHOOSE i \in FirstOccurrences :
        Cardinality({ j \in FirstOccurrences : j <= i }) = k

\* C20 (as claimed): normalize_vocabulary returns the trimmed form of exactly
\* the entries that are not empty after trimming and are the first
\* occurrence of their value ignoring case, in their order and with the first
\* occurrence's casing; no entry of the output is empty and no two are equal
\* ignoring case.
C20_VocabularyFirstOccurrences ==
    normalized.done =>
        /\ Len(normalized.out) = Cardinality(FirstOccurrences)
        /\ \A k \in 1..Len(normalized.out) :
              /\ k <= Cardinality(FirstOccurrences)
                   => normalized.out[k] = trim(vocabulary[NthFirstOccurrence(k)])
              /\ normalized.out[k] # << >>
              /\ \A m \in 1..Len(normalized.out) :
                    SameIgnoringCase(normalized.out[k], normalized.out[m]) => k = m

\* ------------------------------------------------------- under SpecLanguage
Separators == {"-", "_"}
IsUpperCase(c) == c = "U+00C9" \/ \E k \in 1..Len(UpperCase) : UpperCase[k] = c
\* The part before the first separator of the trimmed input.
HintPart == BeforeFirst(trim(invocation.value.v), Separators)

\* C21 (as claimed): normalize_language_hint returns absent for an absent,
\* empty or blank input and for an input whose part before the first '-' or
\* '_' is empty; otherwise it returns that part of the trimmed input in lower
\* case, and a present result is not empty, is in lower case and holds no
\* '-' and no '_'.
C21_LanguageHintLowerCasedSubtag ==
    returned.done =>
        /\ (~invocation.value.some \/ HintPart = << >>) => ~returned.hint.some
        /\ (invocation.value.some /\ HintPart # << >>)
              => returned.hint =
                   Some([i \in 1..Len(HintPart) |-> LowerCaseOf(HintPart[i])])
        /\ returned.hint.some
              => /\ returned.hint.v # << >>
                 /\ \A i \in 1..Len(returned.hint.v) :
                       /\ ~IsUpperCase(returned.hint.v[i])
                       /\ returned.hint.v[i] \notin Separators

\* --------------------------------------------------------- under SpecFacade
ReturnedEventsOf(calls) ==
    { i \in 1..Len(returned.events) : returned.events[i].call \in calls }

\* C22: facade A maps Token and Word to WordPreferred and Segment to
\* SegmentsOnly, absent parameters as Token; facade B maps to WordPreferred
\* always; both pass the language and the vocabulary on as they are; and the
\* timestamps of the request on the wire are "word_preferred" or
\* "segments_only", the wire value of the granularity mapped to.
C22_DialectMapping ==
    (returned.done /\ invocation.fn = "transcribe_file") =>
        LET given == invocation.params
            granularity ==
                IF invocation.facade = "ParakeetEngine" /\ given.some
                     /\ given.v.timestamp_granularity = "Segment"
                THEN "SegmentsOnly" ELSE "WordPreferred"
        IN /\ returned.mapped.timestamp_granularity = granularity
           /\ returned.mapped.language = (IF given.some THEN given.v.language ELSE NoneText)
           /\ returned.mapped.vocabulary = (IF given.some THEN given.v.vocabulary ELSE << >>)
           /\ \A i \in ReturnedEventsOf({"glimpse_fluid_transcribe_wav"}) :
                 /\ returned.events[i].payload.timestamps
                       \in {"word_preferred", "segments_only"}
                 /\ returned.events[i].payload.timestamps = "segments_only"
                       <=> granularity = "SegmentsOnly"

\* C22 witness: facade A with Word, a language and a vocabulary; the request
\* went out with "word_preferred".
C22_Witness ==
    /\ returned.done
    /\ invocation.fn = "transcribe_file"
    /\ invocation.facade = "ParakeetEngine"
    /\ invocation.params.some
    /\ invocation.params.v.timestamp_granularity = "Word"
    /\ invocation.params.v.language.some
    /\ invocation.params.v.vocabulary # << >>
    /\ \E i \in ReturnedEventsOf({"glimpse_fluid_transcribe_wav"}) :
          returned.events[i].payload.timestamps = "word_preferred"

\* The calls that differ from inv in no-op knobs only.
KnobVariants(inv) ==
    CASE inv.fn = "load_model_with_params" /\ inv.facade = "ParakeetEngine" ->
             { [inv EXCEPT !.params.quantization = q] : q \in {"FP32", "Int8"} }
      [] inv.fn = "load_model_with_params" /\ inv.facade = "WhisperfileEngine" ->
             { [inv EXCEPT !.params.port = k.port, !.params.host = k.host,
                           !.params.startup_timeout_secs = k.startup_timeout_secs,
                           !.params.gpu = k.gpu] :
                 k \in [port : {8080, 9000}, host : {"127.0.0.1", "0.0.0.0"},
                        startup_timeout_secs : {30, 5}, gpu : {"Auto", "Disabled"}] }
      [] inv.fn = "transcribe_file" /\ inv.facade = "WhisperfileEngine" /\ inv.params.some ->
             { [inv EXCEPT !.params.v.translate = k.translate,
                           !.params.v.temperature = k.temperature,
                           !.params.v.response_format = k.response_format] :
                 k \in [translate : BOOLEAN, temperature : {NoneInt, Some(2)},
                        response_format : {NoneStr, Some("verbose_json"), Some("text")}] }
      [] OTHER -> {inv}

\* C23: a facade call that differs from the one made in no-op knobs only
\* (facade A: quantization; facade B: port, host, startup timeout, GPU mode,
\* translate, temperature, response_format) issues the same sequence of
\* foreign calls with the same requests, and returns the same result.
C23_KnobsNeverReachWire ==
    returned.done =>
        \A other \in KnobVariants(invocation) :
            /\ FacadeCall(other).w.events = returned.events
            /\ FacadeCall(other).result = returned.result

\* C23 witness: a load through facade B with every knob off its default, which
\* got as far as foreign create.
C23_Witness ==
    /\ returned.done
    /\ invocation.fn = "load_model_with_params"
    /\ invocation.facade = "WhisperfileEngine"
    /\ invocation.params.port = 9000
    /\ invocation.params.host = "0.0.0.0"
    /\ invocation.params.startup_timeout_secs = 5
    /\ invocation.params.gpu = "Disabled"
    /\ invocation.model_path.file.some
    /\ \E i \in ReturnedEventsOf({"glimpse_fluid_create"}) :
          returned.events[i].payload.asr_model_dir = [dir |-> "models/a", file |-> NoneStr]

\* ------------------------------------------------------ under SpecBridgeNew
MissingSymbols == Symbols \ invocation.env.symbols
LibraryOpened ==
    \E i \in ReturnedEventsOf({"Library::new"}) : returned.events[i].lib # 0

\* C25: load yields a table only when the dylib exports all four symbols,
\* and the table then holds the four; when the library was opened and a
\* symbol is missing, load fails with an error that names a missing symbol
\* (the first in the order create, destroy, transcribe_wav, free_buffer), no
\* table exists and foreign create is not called.
C25_AllSymbolsOrNoTable ==
    returned.done =>
        /\ returned.table.some
              => /\ MissingSymbols = {}
                 /\ returned.table.v = Symbols
        /\ (LibraryOpened /\ MissingSymbols = {}) => returned.table.some
        /\ (LibraryOpened /\ MissingSymbols # {})
              => /\ ~returned.ok
                 /\ ~returned.table.some
                 /\ \E i \in 1..Len(SymbolOrder) :
                       /\ SymbolOrder[i] \in MissingSymbols
                       /\ \A j \in 1..(i - 1) : SymbolOrder[j] \notin MissingSymbols
                       /\ returned.err = "missing Fluid bridge symbol " \o SymbolOrder[i]
                 /\ ReturnedEventsOf({"glimpse_fluid_create"}) = {}

\* C25 witness: a dylib that exports create and transcribe_wav only: the
\* error names destroy, and the library opened is closed again.
C25_Witness ==
    /\ returned.done
    /\ invocation.env.symbols = {"glimpse_fluid_create", "glimpse_fluid_transcribe_wav"}
    /\ LibraryOpened
    /\ returned.err = "missing Fluid bridge symbol glimpse_fluid_destroy"
    /\ ReturnedEventsOf({"Library::drop"}) # {}

\* --------------------------------------------------------- under SpecParse
\* C28: an error of parse_bridge_payload that reports a decode failure, of
\* the envelope or of the data payload, carries a preview of the payload of
\* at most MAX_PREVIEW_BYTES raw bytes.
C28_DecodeFailureCarriesPreview ==
    parsed.kind \in {"failed to decode envelope", "failed to decode payload"}
        => /\ parsed.preview.some
           /\ parsed.preview.len <= MAX_PREVIEW_BYTES
           /\ parsed.preview.len <= envelope.len

\* ------------------------------------------------ under SpecBridgeTranscribe
\* C29: FluidBridge::transcribe with a path that holds a NUL returns the
\* error of the path conversion and makes no foreign call: the session, its
\* library and every counter of foreign calls are as they were.
C29_NulPathFailsBeforeForeignCall ==
    (returned.done /\ invocation.fn = "FluidBridge::transcribe"
                   /\ invocation.wav_path.has_nul)
        => /\ returned.result = Err("interior null bytes")
           /\ returned.world.events = << >>
           /\ returned.world = SessionWorld(invocation.bridge)

\* C29 witness: the call with a NUL in the path returned, on a session whose
\* foreign side would have answered with a transcript.
C29_Witness ==
    /\ returned.done
    /\ invocation.fn = "FluidBridge::transcribe"
    /\ invocation.wav_path.has_nul
    /\ invocation.env.out_ptr = 1
    /\ invocation.env.out_len = 1
    /\ parse_bridge_payload(invocation.env.response).ok
    /\ ~returned.result.ok

\* ---------------------------------------------------------- under SpecNames
\* C30: the names unique_temp_wav_name has returned are pairwise distinct,
\* whatever the callers' interleaving and whatever the clock gave them, and
\* the counter equals the number of invocations begun.
NamesBegun ==
    Len(names) + Cardinality({ t \in NameCallers : namePc[t] # "fetch_add" })
C30_NamesDistinctCounterCounts ==
    /\ \A i, j \in 1..Len(names) : i # j => names[i] # names[j]
    /\ TEMP_WAV_COUNTER = NamesBegun

\* C30 witness: two callers read the same failed clock, and the one that
\* took the counter second returned first.
C30_Witness ==
    /\ Len(names) = 2
    /\ names[1] = format_temp_wav_name(0, 1)
    /\ names[2] = format_temp_wav_name(0, 0)
    /\ TEMP_WAV_COUNTER = 2

====
